---- MODULE Spec2Model ----
(***************************************************************************)
(* Model of the computation library of data-table-analyzer:                *)
(*   src/src/ml/linearRegression.js  LinearRegressionModel, DemandForecaster*)
(*   src/unnamed/part_007            HoltForecaster, TradeForecaster        *)
(*   src/unnamed/part_006            DecisionTreeClassifier (ID3)           *)
(*   src/src/ml/priceSensitivity.js  Gini tree, RandomForestClassifier,     *)
(*                                   PriceSensitivityModel                  *)
(*                                                                         *)
(* JavaScript numbers are modelled as exact rationals <<n, d>> (d > 0,      *)
(* lowest terms) extended with the IEEE specials NaN = <<0,0>>,             *)
(* +Infinity = <<1,0>> and -Infinity = <<-1,0>>.  Rounding error of binary  *)
(* floating point is not modelled; Math.sqrt is the one inexact operation.  *)
(***************************************************************************)
EXTENDS Integers, Sequences, FiniteSets, TLC

(***************************************************************************)
(* Bounds of the model.                                                    *)
(***************************************************************************)
MaxRows == 3          \* longest table handed to LinearRegressionModel.train
MaxSeries == 3        \* longest series handed to HoltForecaster.fit
MaxSteps == 2         \* longest forecast horizon asked for
MaxTreeRows == 3      \* longest table handed to DecisionTreeClassifier.train
MaxForestRows == 3    \* longest table handed to RandomForestClassifier.fit
MaxSurveyRows == 12   \* longest table handed to PriceSensitivityModel.train
MaxRuns == 2          \* most runs of equal labels in a table handed to buildTree
MaxGrowRows == 4      \* longest table handed to buildTree of part_006
MaxDepth == 2         \* largest maxDepth a tree is built with
MaxClock == 1         \* latest reading of Date.now()
MaxCharts == 2        \* most charts in the store
MaxDataSets == 2      \* most datasets the store actions load
MaxFiles == 2         \* most files dropped on the upload zone

(***************************************************************************)
(* Generic helpers.                                                        *)
(***************************************************************************)
Abs(x) == IF x < 0 THEN -x ELSE x

Sign(x) == IF x < 0 THEN -1 ELSE IF x > 0 THEN 1 ELSE 0

RECURSIVE GCD(_, _)
GCD(a, b) == IF b = 0 THEN a ELSE GCD(b, a % b)

\* Floor of the integer square root, by bisection on lo..hi.
RECURSIVE ISqrtIn(_, _, _)
ISqrtIn(n, lo, hi) ==
  IF lo >= hi THEN lo
  ELSE LET mid == (lo + hi + 1) \div 2
       IN IF mid * mid <= n THEN ISqrtIn(n, mid, hi) ELSE ISqrtIn(n, lo, mid - 1)

ISqrt(n) == ISqrtIn(n, 0, IF n < 46340 THEN n ELSE 46340)

\* All sequences over S of length lo..hi.
SeqsOf(S, lo, hi) == UNION {[1..n -> S] : n \in lo..hi}

Range(s) == {s[i] : i \in DOMAIN s}

\* The array with the elements of f, each computed once.
Arr(f) == f \o <<>>

(***************************************************************************)
(* JavaScript numbers.                                                     *)
(***************************************************************************)
NaN == <<0, 0>>
PosInf == <<1, 0>>
NegInf == <<-1, 0>>

\* n/d with the common factor g of n and d removed, d # 0.
Reduced(n, d, g) == <<Sign(d) * (n \div g), Abs(d) \div g>>

Q(n, d) == IF d = 0 THEN <<Sign(n), 0>> ELSE Reduced(n, d, GCD(Abs(n), Abs(d)))

R(n) == <<n, 1>>

IsNaN(a) == a = NaN
IsFinite(a) == a[2] # 0
IsInteger(a) == a[2] = 1

RNeg(a) == <<-a[1], a[2]>>

\* a + b for finite a, b over the common denominator lcm(a[2], b[2]); g is
\* the gcd of the denominators.
AddOver(a, b, g) ==
  Q(a[1] * (b[2] \div g) + b[1] * (a[2] \div g), a[2] * (b[2] \div g))

RAdd(a, b) ==
  IF a = <<0, 1>> THEN b
  ELSE IF b = <<0, 1>> THEN a
  ELSE IF IsNaN(a) \/ IsNaN(b) THEN NaN
  ELSE IF ~IsFinite(a) THEN (IF ~IsFinite(b) /\ a # b THEN NaN ELSE a)
  ELSE IF ~IsFinite(b) THEN b
  ELSE AddOver(a, b, GCD(a[2], b[2]))

RSub(a, b) == RAdd(a, RNeg(b))

\* a * b for finite non-zero a, b in lowest terms, cross-reduced by
\* g1 = gcd(a[1], b[2]) and g2 = gcd(b[1], a[2]).
MulReduced(a, b, g1, g2) ==
  <<(a[1] \div g1) * (b[1] \div g2), (a[2] \div g2) * (b[2] \div g1)>>

RMul(a, b) ==
  IF a = <<1, 1>> THEN b
  ELSE IF b = <<1, 1>> THEN a
  ELSE IF IsNaN(a) \/ IsNaN(b) THEN NaN
  ELSE IF ~IsFinite(a) \/ ~IsFinite(b)
       THEN <<Sign(a[1]) * Sign(b[1]), 0>>      \* 0 * Infinity is NaN = <<0,0>>
  ELSE IF a[1] = 0 \/ b[1] = 0 THEN <<0, 1>>
  ELSE MulReduced(a, b, GCD(Abs(a[1]), b[2]), GCD(Abs(b[1]), a[2]))

\* 1/b; 1/0 is +Infinity (the sign of a zero is not modelled).
RInv(b) ==
  IF IsNaN(b) THEN NaN
  ELSE IF ~IsFinite(b) THEN <<0, 1>>
  ELSE IF b[1] = 0 THEN PosInf
  ELSE <<Sign(b[1]) * b[2], Abs(b[1])>>

RDiv(a, b) ==
  IF b = <<1, 1>> THEN a
  ELSE IF IsFinite(b) /\ b[1] = 0 /\ ~IsNaN(a) THEN <<Sign(a[1]), 0>>
  ELSE IF ~IsFinite(a) /\ ~IsFinite(b) THEN NaN
  ELSE RMul(a, RInv(b))

\* a < b, a <= b as JavaScript compares numbers: false when either is NaN.
RLt(a, b) ==
  /\ ~IsNaN(a) /\ ~IsNaN(b)
  /\ IF IsFinite(a) /\ IsFinite(b) THEN a[1] * b[2] < b[1] * a[2]
     ELSE IF ~IsFinite(a) /\ ~IsFinite(b) THEN a[1] < b[1]
     ELSE IF ~IsFinite(a) THEN a[1] < 0
     ELSE b[1] > 0

RLe(a, b) == ~IsNaN(a) /\ ~IsNaN(b) /\ ~RLt(b, a)

RAbs(a) == <<Abs(a[1]), a[2]>>

\* Math.max / Math.min of two numbers: NaN when either is NaN.
RMax(a, b) == IF IsNaN(a) \/ IsNaN(b) THEN NaN ELSE IF RLt(a, b) THEN b ELSE a

RMin(a, b) == IF IsNaN(a) \/ IsNaN(b) THEN NaN ELSE IF RLt(b, a) THEN b ELSE a

\* Math.round: floor(x + 1/2); NaN and the infinities are returned unchanged.
RRound(a) ==
  IF ~IsFinite(a) THEN a
  ELSE LET t == 2 * a[1] + a[2]
           m == 2 * a[2]
       IN R((t - (t % m)) \div m)

\* Math.sqrt: exact when the argument is the square of a rational (n/d in
\* lowest terms with n and d both squares), otherwise rounded up to the next
\* multiple of 1/4 (so never 0 for a positive argument); NaN for a negative
\* argument.
RSqrt(a) ==
  IF IsNaN(a) \/ a[1] < 0 THEN NaN
  ELSE IF ~IsFinite(a) THEN a
  ELSE LET rn == ISqrt(a[1])
           rd == ISqrt(a[2])
       IN IF rn * rn = a[1] /\ rd * rd = a[2] THEN Q(rn, rd)
          ELSE LET whole == a[1] \div a[2]
                   part == ((a[1] % a[2]) * 16) \div a[2]
               IN Q(ISqrt(whole * 16 + part) + 1, 4)

\* a || b for numbers: b when a is 0 or NaN.
ROr(a, b) == IF IsNaN(a) \/ a = R(0) THEN b ELSE a

\* Array.prototype.reduce((a, b) => a + b, 0): the sum of s[1..k], left to right.
RECURSIVE RSumTo(_, _)
RSumTo(s, k) == IF k = 0 THEN R(0) ELSE RAdd(RSumTo(s, k - 1), s[k])

RSum(s) == RSumTo(s, Len(s))

RECURSIVE RDotTo(_, _, _)
RDotTo(u, v, k) ==
  IF k = 0 THEN R(0) ELSE RAdd(RDotTo(u, v, k - 1), RMul(u[k], v[k]))

RDot(u, v) == RDotTo(u, v, Len(u))

(***************************************************************************)
(* Optional values: null is the empty sequence, a value v is <<v>>.         *)
(***************************************************************************)
Null == <<>>

Some(v) == <<v>>

\* The call record of an object on which nothing has been called yet.
NoCallYet == [call |-> "none", arg |-> <<>>, kind |-> "none", error |-> "", value |-> <<>>]

\* A call record: the method, its argument, and the outcome (Threw or Returned, below).
Call(method, arg, outcome) ==
  [call |-> method, arg |-> arg, kind |-> outcome.kind,
   error |-> IF outcome.kind = "error" THEN outcome.error ELSE "",
   value |-> IF outcome.kind = "value" THEN <<outcome.value>> ELSE <<>>]

\* What a call produced: a thrown error or a returned value.
Threw(msg) == [kind |-> "error", error |-> msg]

Returned(v) == [kind |-> "value", value |-> v]

NoCall == [kind |-> "none"]

(***************************************************************************)
(* linearRegression.js: feature encoding.                                  *)
(***************************************************************************)
DayEncoding ==
  [Monday |-> 0, Tuesday |-> 1, Wednesday |-> 2, Thursday |-> 3,
   Friday |-> 4, Saturday |-> 5, Sunday |-> 6]

TimeSlotEncoding == [Morning |-> 0, Afternoon |-> 1, Evening |-> 2]

SeasonEncoding == [Winter |-> 0, Spring |-> 1, Summer |-> 2, Autumn |-> 3, Fall |-> 3]

\* table[key] ?? dflt
Encode(table, key, dflt) == IF key \in DOMAIN table THEN table[key] ELSE dflt

featuresToNumeric(features) ==
  << ROr(features.Rain, R(0)),
     ROr(features.MinTemp, R(10)),
     ROr(features.MaxTemp, R(20)),
     R(Encode(DayEncoding, features.Day, 3)),
     R(Encode(TimeSlotEncoding, features.TimeSlot, 1)),
     R(Encode(SeasonEncoding, features.Season, 2)) >>

(***************************************************************************)
(* linearRegression.js: LinearRegressionModel.                             *)
(***************************************************************************)
LRNew ==
  [weights |-> Null, bias |-> R(0), featureMeans |-> Null,
   featureStds |-> Null, trainStats |-> Null]

Column(X, c) == Arr([r \in DOMAIN X |-> X[r][c]])

ColumnMean(X, c) == RDiv(RSum(Column(X, c)), R(Len(X)))

ColumnStd(X, c, mean) ==
  LET sq == Arr([r \in DOMAIN X |-> RMul(RSub(X[r][c], mean), RSub(X[r][c], mean))])
      variance == RDiv(RSum(sq), R(Len(X)))
  IN ROr(RSqrt(variance), R(1))

\* normalize(X, true): the fitted means and stds, stored on the model.
FitMeans(X) == Arr([c \in DOMAIN X[1] |-> ColumnMean(X, c)])

FitStds(X, means) == Arr([c \in DOMAIN X[1] |-> ColumnStd(X, c, means[c])])

NormalizeRow(row, means, stds) ==
  Arr([c \in DOMAIN row |-> RDiv(RSub(row[c], means[c]), stds[c])])

transpose(matrix) ==
  Arr([c \in DOMAIN matrix[1] |-> Arr([r \in DOMAIN matrix |-> matrix[r][c]])])

\* result[i][j] = sum over k of A[i][k] * cols[j][k], cols the columns of B.
MulByColumns(A, cols) ==
  Arr([i \in DOMAIN A |-> Arr([j \in DOMAIN cols |-> RDot(A[i], cols[j])])])

matMul(A, B) == MulByColumns(A, transpose(B))

matVecMul(A, v) == Arr([i \in DOMAIN A |-> RDot(A[i], v)])

\* The pivot search of invertMatrix: the first row k >= i whose |entry| in
\* column i is not exceeded by a later row.
RECURSIVE PivotRow(_, _, _, _)
PivotRow(aug, i, k, maxRow) ==
  IF k > Len(aug) THEN maxRow
  ELSE PivotRow(aug, i, k + 1,
                IF RLt(RAbs(aug[maxRow][i]), RAbs(aug[k][i])) THEN k ELSE maxRow)

\* [augmented[i], augmented[maxRow]] = [augmented[maxRow], augmented[i]]
SwapRows(aug, i, maxRow) == [aug EXCEPT ![i] = aug[maxRow], ![maxRow] = aug[i]]

\* The singularity check.  |pivot| < 1e-10 can only hold for pivot = 0 here:
\* every number of the model has a denominator below 2^31.
Regularize(aug, i) ==
  IF aug[i][i] = R(0) THEN [aug EXCEPT ![i][i] = RAdd(@, Q(1, 1000000))] ELSE aug

\* Scale pivot row.
ScaleRow(row, scale) == Arr([j \in DOMAIN row |-> RDiv(row[j], scale)])

\* augmented[k][j] -= factor * augmented[i][j] for every j.
SubtractRow(row, factor, pivotRow) ==
  IF factor = R(0) THEN row      \* x - 0 * y = x
  ELSE Arr([j \in DOMAIN row |-> RSub(row[j], RMul(factor, pivotRow[j]))])

\* Eliminate column i from every row but the (scaled) pivot row.
EliminateRows(aug, i, pivotRow) ==
  Arr([k \in DOMAIN aug |->
         IF k = i THEN pivotRow ELSE SubtractRow(aug[k], aug[k][i], pivotRow)])

ScaleAndEliminate(aug, i) == EliminateRows(aug, i, ScaleRow(aug[i], aug[i][i]))

\* One pass of the elimination loop of invertMatrix for column i.
EliminateColumn(aug, i) ==
  ScaleAndEliminate(Regularize(SwapRows(aug, i, PivotRow(aug, i, i + 1, i)), i), i)

RECURSIVE GaussJordan(_, _)
GaussJordan(aug, i) ==
  IF i > Len(aug) THEN aug ELSE GaussJordan(EliminateColumn(aug, i), i + 1)

\* matrix.map((row, i) => [...row, ...identity])
Augment(matrix, n) ==
  Arr([i \in 1..n |->
         Arr([j \in 1..(2 * n) |->
                IF j <= n THEN matrix[i][j] ELSE IF j - n = i THEN R(1) ELSE R(0)])])

\* augmented.map(row => row.slice(n))
ExtractInverse(aug, n) == Arr([i \in 1..n |-> Arr([j \in 1..n |-> aug[i][j + n]])])

invertMatrix(matrix) ==
  ExtractInverse(GaussJordan(Augment(matrix, Len(matrix)), 1), Len(matrix))

predictNormalized(m, x_norm) ==
  RMax(R(0), RAdd(m.bias, RDot(x_norm, m.weights[1])))

RMinOf(s) == CHOOSE x \in Range(s) : \A y \in Range(s) : RLe(x, y)

RMaxOf(s) == CHOOSE x \in Range(s) : \A y \in Range(s) : RLe(y, x)

\* AddRidge with the bias entry regularised too.
AddRidgeOnBias(XTX) ==
  Arr([i \in DOMAIN XTX |->
         Arr([j \in DOMAIN XTX[i] |->
                IF i = j THEN RAdd(XTX[i][j], Q(1, 100)) ELSE XTX[i][j]])])

\* The ridge term of train: lambda = 0.01 on the diagonal, bias entry excepted.
AddRidge(XTX) ==
  Arr([i \in DOMAIN XTX |->
         Arr([j \in DOMAIN XTX[i] |->
                IF i = j /\ i > 1 THEN RAdd(XTX[i][j], Q(1, 100)) ELSE XTX[i][j]])])

\* The size check with the bound off by one.
TooFewPointsBelowOne(data) == Len(data) < 1

\* The size check that opens train.
TooFewPoints(data) == Len(data) < 2

\* normalize(X, true): the fitted means and stds and the normalized rows.
NormalizeBy(X, means, stds) ==
  [featureMeans |-> means, featureStds |-> stds,
   X_norm |-> Arr([r \in DOMAIN X |-> NormalizeRow(X[r], means, stds)])]

NormalizeWith(X, means) == NormalizeBy(X, means, FitStds(X, means))

NormalizeFit(X) == NormalizeWith(X, FitMeans(X))

\* theta = (X^T X + lambda I')^(-1) X^T y
NormalEquation(X_bias, X_T, y) ==
  matVecMul(invertMatrix(AddRidge(matMul(X_T, X_bias))), matVecMul(X_T, y))

SolveWithBias(X_bias, y) == NormalEquation(X_bias, transpose(X_bias), y)

Theta(X_norm, y) == SolveWithBias(Arr([r \in DOMAIN X_norm |-> <<R(1)>> \o X_norm[r]]), y)

\* The fields train assigns before it computes the statistics.
Fitted(m, nz, theta) ==
  [m EXCEPT !.featureMeans = Some(nz.featureMeans),
            !.featureStds = Some(nz.featureStds),
            !.bias = theta[1],
            !.weights = Some(Tail(theta))]

SumSquares(u, v) ==
  RSum(Arr([r \in DOMAIN u |-> RMul(RSub(u[r], v[r]), RSub(u[r], v[r]))]))

SumSquaresAbout(u, c) ==
  RSum(Arr([r \in DOMAIN u |-> RMul(RSub(u[r], c), RSub(u[r], c))]))

StatsRecord(y, predictions, yMean, ssRes, ssTot) ==
  [r2 |-> RMax(R(0), RMin(R(1), RSub(R(1), RDiv(ssRes, ssTot)))),
   rmse |-> RSqrt(RDiv(ssRes, R(Len(y)))),
   mae |-> RDiv(RSum(Arr([r \in DOMAIN y |-> RAbs(RSub(y[r], predictions[r]))])),
                R(Len(y))),
   samples |-> Len(y),
   yMean |-> yMean,
   yMin |-> RMinOf(y),
   yMax |-> RMaxOf(y)]

StatsAbout(y, predictions, yMean) ==
  StatsRecord(y, predictions, yMean, SumSquares(y, predictions), SumSquaresAbout(y, yMean))

TrainStats(fitted, X_norm, y) ==
  StatsAbout(y, Arr([r \in DOMAIN X_norm |-> predictNormalized(fitted, X_norm[r])]),
             RDiv(RSum(y), R(Len(y))))

TrainDone(fitted, stats) ==
  [obj |-> [fitted EXCEPT !.trainStats = Some(stats)], out |-> Returned(stats)]

TrainFitted(fitted, X_norm, y) == TrainDone(fitted, TrainStats(fitted, X_norm, y))

TrainNormalized(m, nz, y) == TrainFitted(Fitted(m, nz, Theta(nz.X_norm, y)), nz.X_norm, y)

\* LinearRegressionModel.train(data) on model m: the model afterwards and
\* what the call produced.
LRTrain(m, data) ==
  IF TooFewPoints(data)
  THEN [obj |-> m, out |-> Threw("Need at least 2 data points to train")]
  ELSE TrainNormalized(m,
         NormalizeFit(Arr([r \in DOMAIN data |-> featuresToNumeric(data[r])])),
         Arr([r \in DOMAIN data |-> data[r].Sales]))

\* LinearRegressionModel.predict(features) on model m.
LRPredict(m, features) ==
  IF m.weights = Null THEN Threw("Model not trained")
  ELSE LET x == featuresToNumeric(features)
           x_norm == NormalizeRow(x, m.featureMeans[1], m.featureStds[1])
       IN Returned(RRound(RMax(R(0), predictNormalized(m, x_norm))))

\* LinearRegressionModel.getFeatureImportance: the features in the order of
\* featureNames, then sorted by importance, largest first (the sort is stable).
FeatureNames == <<"Rain", "MinTemp", "MaxTemp", "Day", "TimeSlot", "Season">>

\* The indices of keys in the order of Array.prototype.sort((a, b) => b - a)
\* on the keys: descending, equal keys (and keys that compare to NaN) keeping
\* their order.  order holds the indices placed so far, x is the next one.
RECURSIVE InsertDescending(_, _, _, _)
InsertDescending(order, x, i, keys) ==
  IF i > Len(order) THEN Append(order, x)
  ELSE IF RLt(keys[order[i]], keys[x])
       THEN SubSeq(order, 1, i - 1) \o <<x>> \o SubSeq(order, i, Len(order))
  ELSE InsertDescending(order, x, i + 1, keys)

RECURSIVE DescendingTo(_, _)
DescendingTo(keys, k) ==
  IF k = 0 THEN <<>> ELSE InsertDescending(DescendingTo(keys, k - 1), k, 1, keys)

\* Where the sort puts each index when no key is NaN: behind the indices of
\* greater keys and behind the earlier indices of equal keys.
DescendingPositions(keys) ==
  Arr([i \in DOMAIN keys |->
         1 + Cardinality({j \in DOMAIN keys :
                            RLt(keys[i], keys[j]) \/ (j < i /\ keys[j] = keys[i])})])

OrderOf(positions) ==
  Arr([p \in DOMAIN positions |-> CHOOSE i \in DOMAIN positions : positions[i] = p])

DescendingOrder(keys) ==
  IF \E i \in DOMAIN keys : IsNaN(keys[i]) THEN DescendingTo(keys, Len(keys))
  ELSE OrderOf(DescendingPositions(keys))

\* s rearranged by an order of its indices.
Permute(s, order) == Arr([i \in DOMAIN order |-> s[order[i]]])

\* s.sort((a, b) => key(b) - key(a)), keys[i] being the key of s[i].
SortDescending(s, keys) == Permute(s, DescendingOrder(keys))

Importances(weights, totalWeight) ==
  Arr([i \in DOMAIN FeatureNames |-> RDiv(RAbs(weights[i]), totalWeight)])

RankedFeatures(weights, importances) ==
  SortDescending(Arr([i \in DOMAIN FeatureNames |->
                        [feature |-> FeatureNames[i],
                         importance |-> importances[i],
                         coefficient |-> weights[i]]]),
                 importances)

ImportanceOf(weights, totalWeight) ==
  RankedFeatures(weights, Importances(weights, totalWeight))

LRFeatureImportance(m) ==
  IF m.weights = Null THEN <<>>
  ELSE ImportanceOf(m.weights[1],
         ROr(RSum(Arr([i \in DOMAIN m.weights[1] |-> RAbs(m.weights[1][i])])), R(1)))

\* LinearRegressionModel.getStats: {...this.trainStats, featureImportance}.
LRGetStats(m) == [trainStats |-> m.trainStats, featureImportance |-> LRFeatureImportance(m)]

(***************************************************************************)
(* Tables.  A row is a record of cells; a cell is Null (null, undefined or  *)
(* an absent column) or Some(v) with v a string or a number.  A column is  *)
(* found by a case-insensitive search for name fragments: ColumnFragments  *)
(* gives, for each column name of the model's tables, the fragments of the *)
(* pattern lists in the sources that its lower-cased name contains.  Every  *)
(* pattern list matches at most one column of a table of the model, so the *)
(* order of the columns does not matter to columns.find.                   *)
(***************************************************************************)
ColumnFragments ==
  [Day |-> {"day"}, Rain |-> {"rain"}, Item |-> {"item"}, Time |-> {"time"},
   Month |-> {"month"}, Value |-> {"value"}, Country |-> {"country"},
   Statistic |-> {"statistic", "stat"},
   Price |-> {"price"}, Age |-> {"age"}, Income |-> {"income"}, Cups |-> {"cups"},
   Gender |-> {"gender"},
   Name |-> {}]

Columns(data) == IF Len(data) = 0 THEN {} ELSE DOMAIN data[1]

Matching(columns, patterns) == {c \in columns : ColumnFragments[c] \cap patterns # {}}

\* findCol(patterns): Some(column) or Null.
FindCol(columns, patterns) ==
  IF Matching(columns, patterns) = {} THEN Null
  ELSE Some(CHOOSE c \in Matching(columns, patterns) : TRUE)

\* row[col], col being the result of findCol (row[undefined] is undefined).
Cell(row, col) == IF col # Null /\ col[1] \in DOMAIN row THEN row[col[1]] ELSE Null

\* A numeric cell as a condition: null, 0 and NaN are falsy.
TruthyNumber(cell) == cell # Null /\ cell[1] # R(0) /\ ~IsNaN(cell[1])

\* A text cell as a condition: null and "" are falsy.
TruthyText(cell) == cell # Null /\ cell[1] # ""

(***************************************************************************)
(* linearRegression.js: preprocessForRegression.                           *)
(***************************************************************************)
getSeason(month) ==
  IF month >= 3 /\ month <= 5 THEN "Spring"
  ELSE IF month >= 6 /\ month <= 8 THEN "Summer"
  ELSE IF month >= 9 /\ month <= 11 THEN "Autumn"
  ELSE "Winter"

\* Math.floor of a finite number.
RFloor(a) == (a[1] - (a[1] % a[2])) \div a[2]

\* parseTimeToHour for the cells of the model: null or a number.
parseTimeToHour(cell) ==
  IF ~TruthyNumber(cell) THEN 12
  ELSE IF RLt(cell[1], R(1)) THEN RFloor(RMul(cell[1], R(24)))
  ELSE RFloor(cell[1])

getTimeSlot(hour) ==
  IF hour >= 6 /\ hour < 12 THEN "Morning"
  ELSE IF hour >= 12 /\ hour < 17 THEN "Afternoon"
  ELSE "Evening"

\* The columns preprocessForRegression looks for.  The tables of the model
\* have no date column (dateCol is undefined), so the branches at lines
\* 96-102 and 118-123 are not taken.
RegressionColumns(columns) ==
  [dayCol |-> FindCol(columns, {"day"}),
   timeCol |-> FindCol(columns, {"time"}),
   rainCol |-> FindCol(columns, {"rain"}),
   minTempCol |-> FindCol(columns, {"min", "mintemp"}),
   maxTempCol |-> FindCol(columns, {"max", "maxtemp"}),
   itemCol |-> FindCol(columns, {"item", "product", "coffee"})]

\* row[col] ? parseFloat(row[col]) : dflt
NumberOr(cell, dflt) == IF TruthyNumber(cell) THEN cell[1] ELSE dflt

\* A text cell inside a template string or as a lookup key.
TextOf(cell) == IF cell = Null THEN "undefined" ELSE cell[1]

\* The condition of one transaction row: the fields of a group and its item.
Condition(row, cols) ==
  [day |-> TextOf(Cell(row, cols.dayCol)),
   timeSlot |-> IF cols.timeCol = Null THEN "Afternoon"
                ELSE getTimeSlot(parseTimeToHour(Cell(row, cols.timeCol))),
   rain |-> NumberOr(Cell(row, cols.rainCol), R(0)),
   minTemp |-> NumberOr(Cell(row, cols.minTempCol), R(10)),
   maxTemp |-> NumberOr(Cell(row, cols.maxTempCol), R(20)),
   season |-> "Summer",
   item |-> IF TruthyText(Cell(row, cols.itemCol)) THEN Cell(row, cols.itemCol)[1]
            ELSE "Unknown"]

\* groupKey, as the tuple of the parts of the template string.
GroupKey(c) ==
  <<c.day, c.timeSlot, RRound(c.rain), RRound(c.minTemp), RRound(c.maxTemp), c.season>>

\* The position of the entry of an insertion-ordered map with this key, or 0.
RECURSIVE KeyIndex(_, _, _)
KeyIndex(entries, key, i) ==
  IF i > Len(entries) THEN 0
  ELSE IF entries[i].key = key THEN i
  ELSE KeyIndex(entries, key, i + 1)

\* map.set(key, (map.get(key) || 0) + 1) on an insertion-ordered map of counts.
CountAt(counts, key, at) ==
  IF at = 0 THEN Append(counts, [key |-> key, count |-> 1])
  ELSE [counts EXCEPT ![at].count = @ + 1]

CountIn(counts, key) == CountAt(counts, key, KeyIndex(counts, key, 1))

\* One pass of data.forEach: the row is counted in its group.
CountRowAt(groups, c, at) ==
  IF at = 0
  THEN Append(groups, [key |-> GroupKey(c), day |-> c.day, timeSlot |-> c.timeSlot,
                       rain |-> c.rain, minTemp |-> c.minTemp, maxTemp |-> c.maxTemp,
                       season |-> c.season, totalSales |-> 1,
                       itemSales |-> <<[key |-> c.item, count |-> 1]>>])
  ELSE [groups EXCEPT ![at].totalSales = @ + 1,
                      ![at].itemSales = CountIn(@, c.item)]

CountRow(groups, c) == CountRowAt(groups, c, KeyIndex(groups, GroupKey(c), 1))

RECURSIVE SalesByGroup(_, _, _)
SalesByGroup(data, cols, k) ==
  IF k = 0 THEN <<>>
  ELSE CountRow(SalesByGroup(data, cols, k - 1), Condition(data[k], cols))

\* {...features, Sales}
TrainingRow(group, sales) ==
  [Day |-> group.day, TimeSlot |-> group.timeSlot, Rain |-> group.rain,
   MinTemp |-> group.minTemp, MaxTemp |-> group.maxTemp, Season |-> group.season,
   Sales |-> R(sales)]

\* itemTrainingData as an insertion-ordered map: item -> rows.
AddItemRowAt(itemData, item, row, at) ==
  IF at = 0 THEN Append(itemData, [key |-> item, rows |-> <<row>>])
  ELSE [itemData EXCEPT ![at].rows = Append(@, row)]

AddItemRow(itemData, item, row) ==
  AddItemRowAt(itemData, item, row, KeyIndex(itemData, item, 1))

RECURSIVE AddGroupItems(_, _, _)
AddGroupItems(itemData, group, k) ==
  IF k = 0 THEN itemData
  ELSE AddItemRow(AddGroupItems(itemData, group, k - 1), group.itemSales[k].key,
                  TrainingRow(group, group.itemSales[k].count))

RECURSIVE ItemTrainingData(_, _)
ItemTrainingData(groups, k) ==
  IF k = 0 THEN <<>>
  ELSE AddGroupItems(ItemTrainingData(groups, k - 1), groups[k], Len(groups[k].itemSales))

\* The item names of the model in the order of Array.prototype.sort().
ItemOrder == <<"Americano", "Latte", "Mocha", "Unknown">>

\* Array.from(itemTrainingData.keys()).sort()
SortedItems(itemData) ==
  SelectSeq(ItemOrder, LAMBDA item : KeyIndex(itemData, item, 1) # 0)

ProcessedGroups(groups, itemData) ==
  [totalSalesData |-> Arr([g \in DOMAIN groups |-> TrainingRow(groups[g], groups[g].totalSales)]),
   itemSalesData |-> itemData,
   items |-> SortedItems(itemData),
   featureNames |-> FeatureNames]

ProcessedFrom(groups) == ProcessedGroups(groups, ItemTrainingData(groups, Len(groups)))

preprocessForRegression(data) ==
  ProcessedFrom(SalesByGroup(data, RegressionColumns(Columns(data)), Len(data)))

(***************************************************************************)
(* linearRegression.js: DemandForecaster.  itemModels is an insertion-     *)
(* ordered map: a sequence of [key |-> item, model |-> LinearRegressionModel].*)
(***************************************************************************)
DFNew == [totalModel |-> LRNew, itemModels |-> <<>>, items |-> <<>>, trained |-> FALSE]

\* this.itemModels.set(item, model)
SetItemModelAt(itemModels, item, model, at) ==
  IF at = 0 THEN Append(itemModels, [key |-> item, model |-> model])
  ELSE [itemModels EXCEPT ![at].model = model]

SetItemModel(itemModels, item, model) ==
  SetItemModelAt(itemModels, item, model, KeyIndex(itemModels, item, 1))

\* One pass of processed.itemSalesData.forEach in train: an item with at
\* least 3 rows gets a new model, unless its training throws.  acc holds
\* this.itemModels and the itemStats of the call.
TrainItemWith(acc, item, res) ==
  IF res.out.kind = "error" THEN acc
  ELSE [models |-> SetItemModel(acc.models, item, res.obj),
        stats |-> Append(acc.stats, [key |-> item, stats |-> res.out.value])]

TrainItemAboveThree(acc, entry) ==
  IF Len(entry.rows) > 3
  THEN TrainItemWith(acc, entry.key, LRTrain(LRNew, entry.rows))
  ELSE acc

TrainItem(acc, entry) ==
  IF Len(entry.rows) >= 3
  THEN TrainItemWith(acc, entry.key, LRTrain(LRNew, entry.rows))
  ELSE acc

RECURSIVE TrainItems(_, _, _)
TrainItems(itemModels, itemData, k) ==
  IF k = 0 THEN [models |-> itemModels, stats |-> <<>>]
  ELSE TrainItem(TrainItems(itemModels, itemData, k - 1), itemData[k])

DFTrained(m, processed, total, trainedItems) ==
  [obj |-> [totalModel |-> total.obj, itemModels |-> trainedItems.models,
            items |-> processed.items, trained |-> TRUE],
   out |-> Returned([totalModel |-> total.out.value,
                     itemModels |-> trainedItems.stats,
                     itemCount |-> Len(trainedItems.models),
                     totalItems |-> Len(processed.items)])]

\* train after this.items is assigned and this.totalModel.train has run.
DFTrainTotal(m, processed, total) ==
  IF total.out.kind = "error"
  THEN [obj |-> [m EXCEPT !.items = processed.items, !.totalModel = total.obj],
        out |-> total.out]
  ELSE DFTrained(m, processed, total,
                 TrainItems(m.itemModels, processed.itemSalesData,
                            Len(processed.itemSalesData)))

DFTrainProcessed(m, processed) ==
  DFTrainTotal(m, processed, LRTrain(m.totalModel, processed.totalSalesData))

\* DemandForecaster.train(data).
DFTrain(m, data) == DFTrainProcessed(m, preprocessForRegression(data))

\* DemandForecaster.predictTotal(features).
DFPredictTotal(m, features) ==
  IF ~m.trained THEN Threw("Model not trained") ELSE LRPredict(m.totalModel, features)

\* The fallback of predictItem: Math.round(total / this.items.length).
ItemFallback(m, total) ==
  IF total.kind = "error" THEN total
  ELSE Returned(RRound(RDiv(total.value, R(Len(m.items)))))

PredictItemAt(m, features, at) ==
  IF at = 0 THEN ItemFallback(m, LRPredict(m.totalModel, features))
  ELSE LRPredict(m.itemModels[at].model, features)

\* DemandForecaster.predictItem(features, item).
DFPredictItem(m, features, item) ==
  IF ~m.trained THEN Threw("Model not trained")
  ELSE PredictItemAt(m, features, KeyIndex(m.itemModels, item, 1))

\* predictions.sort((a, b) => b.predicted - a.predicted)
SortPredictions(predictions) ==
  SortDescending(predictions, Arr([i \in DOMAIN predictions |-> predictions[i].predicted]))

ItemPredictions(m, features) ==
  Arr([i \in DOMAIN m.items |-> DFPredictItem(m, features, m.items[i])])

AllItemsFrom(m, each) ==
  IF \E i \in DOMAIN each : each[i].kind = "error"
  THEN each[CHOOSE i \in DOMAIN each :
              each[i].kind = "error" /\ \A j \in 1..(i - 1) : each[j].kind # "error"]
  ELSE Returned(SortPredictions(Arr([i \in DOMAIN each |->
                  [item |-> m.items[i], predicted |-> each[i].value]])))

\* DemandForecaster.predictAllItems(features).
DFPredictAllItems(m, features) ==
  IF ~m.trained THEN Threw("Model not trained")
  ELSE AllItemsFrom(m, ItemPredictions(m, features))

\* DemandForecaster.getStats().
DFGetStats(m) ==
  IF ~m.trained THEN Returned(Null)
  ELSE Returned(Some([totalModel |-> LRGetStats(m.totalModel),
                      itemModels |-> Arr([i \in DOMAIN m.itemModels |->
                                            [item |-> m.itemModels[i].key,
                                             stats |-> LRGetStats(m.itemModels[i].model)]]),
                      items |-> m.items]))

(***************************************************************************)
(* part_007 (trade forecaster): HoltForecaster.                            *)
(***************************************************************************)
HoltNew(alpha, beta) ==
  [alpha |-> alpha, beta |-> beta, level |-> Null, trend |-> Null,
   fitted |-> <<>>, residuals |-> <<>>, trainData |-> <<>>]

\* The smoothing loop of fit, from observation i on; h holds level, trend,
\* fitted and residuals as plain numbers.
RECURSIVE HoltSmooth(_, _, _)
HoltSmooth(h, values, i) ==
  IF i > Len(values) THEN h
  ELSE LET prevLevel == h.level
           prevTrend == h.trend
           level == RAdd(RMul(h.alpha, values[i]),
                         RMul(RSub(R(1), h.alpha), RAdd(prevLevel, prevTrend)))
           trend == RAdd(RMul(h.beta, RSub(level, prevLevel)),
                         RMul(RSub(R(1), h.beta), prevTrend))
           fitted == RAdd(prevLevel, prevTrend)
       IN HoltSmooth([h EXCEPT !.level = level, !.trend = trend,
                               !.fitted = Append(@, fitted),
                               !.residuals = Append(@, RSub(values[i], fitted))],
                     values, i + 1)

\* The size check that opens fit.
TooFewValues(values) == Len(values) < 2

\* level and trend as the fields of a fitted forecaster (non-null).
HoltFitted(done) ==
  [obj |-> [done EXCEPT !.level = Some(done.level), !.trend = Some(done.trend)],
   out |-> Returned("this")]

\* HoltForecaster.fit(values) on forecaster h.
HoltFit(h, values) ==
  IF TooFewValues(values)
  THEN [obj |-> h, out |-> Threw("Need at least 2 data points")]
  ELSE HoltFitted(HoltSmooth([h EXCEPT !.trainData = values,
                                       !.level = values[1],
                                       !.trend = RSub(values[2], values[1]),
                                       !.fitted = <<values[1]>>,
                                       !.residuals = <<RSub(values[1], values[1])>>],
                             values, 2))

\* forecast with the horizon counted from 0.
HoltForecastFromNow(h, steps) ==
  IF h.level = Null THEN Threw("Model not fitted")
  ELSE Returned(Arr([i \in 1..steps |->
                       RMax(R(0), RAdd(h.level[1], RMul(R(i - 1), h.trend[1])))]))

\* HoltForecaster.forecast(steps).
HoltForecast(h, steps) ==
  IF h.level = Null THEN Threw("Model not fitted")
  ELSE Returned(Arr([i \in 1..steps |->
                       RMax(R(0), RAdd(h.level[1], RMul(R(i), h.trend[1])))]))

\* Math.sqrt of the mean squared residual.
StandardError(residuals) ==
  RSqrt(RDiv(RSum(Arr([i \in DOMAIN residuals |-> RMul(residuals[i], residuals[i])])),
             R(Len(residuals))))

ZScore(confidence) ==
  IF confidence = Q(95, 100) THEN Q(196, 100)
  ELSE IF confidence = Q(9, 10) THEN Q(1645, 1000)
  ELSE Q(196, 100)

\* Interval with the margin subtracted on both sides.
IntervalBelow(pred, margin) ==
  [prediction |-> pred, lower |-> RMax(R(0), RSub(pred, margin)), upper |-> RSub(pred, margin)]

Interval(pred, margin) ==
  [prediction |-> pred, lower |-> RMax(R(0), RSub(pred, margin)), upper |-> RAdd(pred, margin)]

\* predictions.map((pred, i) => ...), i counted from 1 here.
Intervals(predictions, se, z) ==
  Arr([i \in DOMAIN predictions |->
         Interval(predictions[i],
                  RMul(z, RMul(se, RSqrt(RAdd(R(1), RMul(R(i), Q(1, 10)))))))])

IntervalsOf(h, predictions, confidence) ==
  IF predictions.kind = "error" THEN predictions
  ELSE Returned(Intervals(predictions.value, StandardError(h.residuals), ZScore(confidence)))

\* HoltForecaster.getConfidenceIntervals(steps, confidence).
HoltConfidenceIntervals(h, steps, confidence) ==
  IntervalsOf(h, HoltForecast(h, steps), confidence)

\* The statistics of getStats from the sums it computes.
HoltStatsFrom(h, ssRes, ssTot, absErrors, nonZero) ==
  [r2 |-> RMax(R(0), RMin(R(1), RSub(R(1), RDiv(ssRes, ssTot)))),
   rmse |-> RSqrt(RDiv(ssRes, R(Len(h.trainData)))),
   mape |-> RMul(RDiv(absErrors, R(nonZero)), R(100)),
   samples |-> Len(h.trainData),
   alpha |-> h.alpha, beta |-> h.beta,
   lastLevel |-> h.level[1], lastTrend |-> h.trend[1]]

HoltStatsAbout(h, values, mean) ==
  HoltStatsFrom(h,
    RSum(Arr([i \in DOMAIN h.residuals |-> RMul(h.residuals[i], h.residuals[i])])),
    RSum(Arr([i \in DOMAIN values |->
                RMul(RSub(values[i], mean), RSub(values[i], mean))])),
    RSum(Arr([i \in DOMAIN values |->
                IF values[i] = R(0) THEN R(0)
                ELSE RAbs(RDiv(h.residuals[i], values[i]))])),
    Cardinality({i \in DOMAIN values : values[i] # R(0)}))

\* HoltForecaster.getStats().
HoltGetStats(h) ==
  IF Len(h.trainData) = 0 THEN Null
  ELSE Some(HoltStatsAbout(h, h.trainData, RDiv(RSum(h.trainData), R(Len(h.trainData)))))

(***************************************************************************)
(* IEEE 754 binary64 arithmetic, as JavaScript numbers compute: a natural  *)
(* number is the little-endian sequence of its base-2^14 digits, and a     *)
(* finite double is [sign, man, exp] with value sign * man * 2^exp, man    *)
(* odd and below 2^53 (zero: man = <<>>, exp = 0).  Results are rounded to *)
(* the nearest double, ties to the even mantissa.  The exponent range and  *)
(* the sign of zero are not modelled.                                      *)
(***************************************************************************)
LimbBits == 14

Base == 2 ^ LimbBits

Limb(a, i) == IF i <= Len(a) THEN a[i] ELSE 0

Zeros(n) == Arr([i \in 1..n |-> 0])

\* a without its leading (most significant) zero digits.
BTrim(a) ==
  SubSeq(a, 1, IF \A i \in DOMAIN a : a[i] = 0 THEN 0
               ELSE CHOOSE i \in DOMAIN a : a[i] # 0 /\ \A j \in DOMAIN a : j > i => a[j] = 0)

BFromInt(n) == BTrim(<<n % Base, (n \div Base) % Base, n \div (Base * Base)>>)

RECURSIVE BAddFrom(_, _, _, _)
BAddDigit(a, b, i, sum) == <<sum % Base>> \o BAddFrom(a, b, i + 1, sum \div Base)

BAddFrom(a, b, i, carry) ==
  IF i > Len(a) /\ i > Len(b) THEN (IF carry = 0 THEN <<>> ELSE <<carry>>)
  ELSE BAddDigit(a, b, i, Limb(a, i) + Limb(b, i) + carry)

BAdd(a, b) == BAddFrom(a, b, 1, 0)

\* a - b for a >= b.
RECURSIVE BSubFrom(_, _, _, _)
BSubDigit(a, b, i, diff) ==
  IF diff < 0 THEN <<diff + Base>> \o BSubFrom(a, b, i + 1, 1)
  ELSE <<diff>> \o BSubFrom(a, b, i + 1, 0)

BSubFrom(a, b, i, borrow) ==
  IF i > Len(a) THEN <<>> ELSE BSubDigit(a, b, i, a[i] - Limb(b, i) - borrow)

BSub(a, b) == BTrim(BSubFrom(a, b, 1, 0))

\* a * k for one digit k.
RECURSIVE BMulFrom(_, _, _, _)
BMulDigit(a, k, i, product) == <<product % Base>> \o BMulFrom(a, k, i + 1, product \div Base)

BMulFrom(a, k, i, carry) ==
  IF i > Len(a) THEN (IF carry = 0 THEN <<>> ELSE <<carry>>)
  ELSE BMulDigit(a, k, i, a[i] * k + carry)

BMulLimb(a, k) == BTrim(BMulFrom(a, k, 1, 0))

RECURSIVE BMulTo(_, _, _)
BMulTo(a, b, j) ==
  IF j = 0 THEN <<>>
  ELSE BAdd(BMulTo(a, b, j - 1), Zeros(j - 1) \o BMulLimb(a, b[j]))

BMul(a, b) == BTrim(BMulTo(a, b, Len(b)))

\* a * 2^k
BShl(a, k) ==
  IF a = <<>> THEN <<>> ELSE Zeros(k \div LimbBits) \o BMulLimb(a, 2 ^ (k % LimbBits))

BShrBits(a, r) ==
  BTrim(Arr([i \in DOMAIN a |->
               (a[i] \div (2 ^ r)) + (Limb(a, i + 1) % (2 ^ r)) * (2 ^ (LimbBits - r))]))

\* floor(a / 2^k)
BShr(a, k) == BShrBits(SubSeq(a, (k \div LimbBits) + 1, Len(a)), k % LimbBits)

\* -1, 0 or 1 as a is less than, equal to or greater than b.
BCmpAt(a, b, i) == IF a[i] < b[i] THEN -1 ELSE 1

BCmp(a, b) ==
  IF a = b THEN 0
  ELSE IF Len(a) # Len(b) THEN (IF Len(a) < Len(b) THEN -1 ELSE 1)
  ELSE BCmpAt(a, b, CHOOSE i \in DOMAIN a :
                      a[i] # b[i] /\ \A j \in DOMAIN a : j > i => a[j] = b[j])

BitLenLimb(x) == CHOOSE k \in 1..LimbBits : x < 2 ^ k /\ x >= 2 ^ (k - 1)

BitLen(a) == IF a = <<>> THEN 0 ELSE (Len(a) - 1) * LimbBits + BitLenLimb(a[Len(a)])

BOdd(a) == a # <<>> /\ a[1] % 2 = 1

LowZerosLimb(x) == CHOOSE k \in 0..(LimbBits - 1) : x % (2 ^ k) = 0 /\ x % (2 ^ (k + 1)) # 0

LowZerosAt(a, i) == (i - 1) * LimbBits + LowZerosLimb(a[i])

\* The number of trailing zero bits of a # 0.
LowZeros(a) ==
  LowZerosAt(a, CHOOSE i \in DOMAIN a : a[i] # 0 /\ \A j \in DOMAIN a : j < i => a[j] = 0)

\* floor(a / d) and a % d for one digit d, the digits taken from the top.
RECURSIVE BDivFrom(_, _, _, _)
BDivDigit(a, d, i, x) ==
  [quotient |-> BDivFrom(a, d, i - 1, x % d).quotient \o <<x \div d>>,
   remainder |-> BDivFrom(a, d, i - 1, x % d).remainder]

BDivFrom(a, d, i, rem) ==
  IF i = 0 THEN [quotient |-> <<>>, remainder |-> rem]
  ELSE BDivDigit(a, d, i, rem * Base + a[i])

BDivLimb(a, d) == BDivFrom(a, d, Len(a), 0)

FZero == [sign |-> 1, man |-> <<>>, exp |-> 0]

FShift(sign, man, exp, zeros) == [sign |-> sign, man |-> BShr(man, zeros), exp |-> exp + zeros]

\* The double of the value sign * man * 2^exp when man fits 53 bits.
FCanon(sign, man, exp) == IF man = <<>> THEN FZero ELSE FShift(sign, man, exp, LowZeros(man))

FRoundUp(quotient, order) == order > 0 \/ (order = 0 /\ BOdd(quotient))

FRoundWith(sign, quotient, rest, half, exp) ==
  FCanon(sign,
         IF FRoundUp(quotient, BCmp(rest, half)) THEN BAdd(quotient, <<1>>) ELSE quotient,
         exp)

FRoundCut(sign, man, exp, cut, quotient) ==
  FRoundWith(sign, quotient, BSub(man, BShl(quotient, cut)), BShl(<<1>>, cut - 1), exp + cut)

\* sign * man * 2^exp rounded to the nearest double, ties to even.
FRound(sign, man, exp) ==
  IF BitLen(man) <= 53 THEN FCanon(sign, man, exp)
  ELSE FRoundCut(sign, man, exp, BitLen(man) - 53, BShr(man, BitLen(man) - 53))

FMul(x, y) == FRound(x.sign * y.sign, BMul(x.man, y.man), x.exp + y.exp)

FNeg(x) == IF x.man = <<>> THEN x ELSE [x EXCEPT !.sign = -x.sign]

FSumOf(signX, manX, signY, manY, exp, order) ==
  IF signX = signY THEN [sign |-> signX, man |-> BAdd(manX, manY), exp |-> exp]
  ELSE IF order = 0 THEN FZero
  ELSE IF order > 0 THEN [sign |-> signX, man |-> BSub(manX, manY), exp |-> exp]
  ELSE [sign |-> signY, man |-> BSub(manY, manX), exp |-> exp]

FAligned(x, y, manX, manY, exp) == FSumOf(x.sign, manX, y.sign, manY, exp, BCmp(manX, manY))

FSumAt(x, y, exp) == FAligned(x, y, BShl(x.man, x.exp - exp), BShl(y.man, y.exp - exp), exp)

\* x + y before rounding.
FSum(x, y) ==
  IF x.man = <<>> THEN y
  ELSE IF y.man = <<>> THEN x
  ELSE FSumAt(x, y, IF x.exp < y.exp THEN x.exp ELSE y.exp)

FRounded(exact) == FRound(exact.sign, exact.man, exact.exp)

FAdd(x, y) == FRounded(FSum(x, y))

FSub(x, y) == FAdd(x, FNeg(y))

FLt(x, y) == FSum(x, FNeg(y)).man # <<>> /\ FSum(x, FNeg(y)).sign < 0

FLe(x, y) == x = y \/ FLt(x, y)

\* Math.max(0, x)
FMax0(x) == IF x.sign < 0 THEN FZero ELSE x

GuardBits == 70

FQuotient(sign, division) ==
  FRound(sign,
         BAdd(BShl(BTrim(division.quotient), 1), IF division.remainder = 0 THEN <<>> ELSE <<1>>),
         -(GuardBits + 1))

\* The double nearest to n / d for integers n and 0 < d < 2^14: what a
\* decimal literal and a division of two such integers evaluate to.
FDiv(n, d) ==
  IF n = 0 THEN FZero
  ELSE FQuotient(IF n < 0 THEN -1 ELSE 1, BDivLimb(BShl(BFromInt(Abs(n)), GuardBits), d))

\* The double of a number of the model given as the fraction <<n, d>>.
F(q) == FDiv(q[1], q[2])

FOne == FDiv(1, 1)

(***************************************************************************)
(* part_007: HoltForecaster.fit and forecast in binary64, the arithmetic   *)
(* the program runs in.  fitted, residuals and trainData hold doubles.     *)
(***************************************************************************)
Holt64New(alpha, beta) ==
  [alpha |-> F(alpha), beta |-> F(beta), level |-> Null, trend |-> Null,
   fitted |-> <<>>, residuals |-> <<>>, trainData |-> <<>>]

\* this.alpha * values[i] + (1 - this.alpha) * (prevLevel + prevTrend)
Holt64Level(h, value) ==
  FAdd(FMul(h.alpha, value), FMul(FSub(FOne, h.alpha), FAdd(h.level, h.trend)))

\* The level smoothed from the previous level alone.
Holt64LevelOnly(h, value) ==
  FAdd(FMul(h.alpha, value), FMul(FSub(FOne, h.alpha), h.level))

\* One pass of the loop of fit, the new level given.
Holt64Step(h, value, level, fitted) ==
  [h EXCEPT !.level = level,
            !.trend = FAdd(FMul(h.beta, FSub(level, h.level)),
                           FMul(FSub(FOne, h.beta), h.trend)),
            !.fitted = Append(@, fitted),
            !.residuals = Append(@, FSub(value, fitted))]

RECURSIVE Holt64SmoothLevelOnly(_, _, _)
Holt64SmoothLevelOnly(h, values, i) ==
  IF i > Len(values) THEN h
  ELSE Holt64SmoothLevelOnly(Holt64Step(h, values[i], Holt64LevelOnly(h, values[i]),
                                        FAdd(h.level, h.trend)),
                             values, i + 1)

\* The loop of fit from values[i] on.
RECURSIVE Holt64Smooth(_, _, _)
Holt64Smooth(h, values, i) ==
  IF i > Len(values) THEN h
  ELSE Holt64Smooth(Holt64Step(h, values[i], Holt64Level(h, values[i]),
                               FAdd(h.level, h.trend)),
                    values, i + 1)

\* HoltForecaster.fit(values) on forecaster h, values being doubles.
Holt64Fit(h, values) ==
  IF TooFewValues(values)
  THEN [obj |-> h, out |-> Threw("Need at least 2 data points")]
  ELSE HoltFitted(Holt64Smooth([h EXCEPT !.trainData = values,
                                         !.level = values[1],
                                         !.trend = FSub(values[2], values[1]),
                                         !.fitted = <<values[1]>>,
                                         !.residuals = <<FSub(values[1], values[1])>>],
                               values, 2))

\* HoltForecaster.forecast(steps) on forecaster h.
Holt64Forecast(h, steps) ==
  IF h.level = Null THEN Threw("Model not fitted")
  ELSE Returned(Arr([i \in 1..steps |->
                       FMax0(FAdd(h.level[1], FMul(FDiv(i, 1), h.trend[1])))]))

\* The doubles of a series of numbers of the model.
Doubles(values) == Arr([i \in DOMAIN values |-> F(values[i])])

(***************************************************************************)
(* part_007: month strings and dates.  A month cell is a string; the       *)
(* operators below give, for the strings of the model, what trim().split,  *)
(* parseInt and toLowerCase make of them.  A Date built by                 *)
(* new Date(year, month, 1) is the record of its year and month index;     *)
(* its getTime() is ordered as year * 12 + month.                          *)
(***************************************************************************)
\* monthStr.trim().split(' ')
SplitMonth(monthStr) ==
  CASE monthStr = "2023 January" -> <<"2023", "January">>
    [] monthStr = "2023 February" -> <<"2023", "February">>
    [] monthStr = "2023 november" -> <<"2023", "november">>
    [] monthStr = "2023 December" -> <<"2023", "December">>
    [] monthStr = " 2023 January" -> <<"2023", "January">>
    [] monthStr = "January 2023" -> <<"January", "2023">>
    [] monthStr = "2023" -> <<"2023">>
    [] monthStr = "2023 January_Re" -> <<"2023", "January_Re">>
    [] OTHER -> <<monthStr>>

\* parseInt(text, 10)
ParseInt(text) ==
  CASE text = "2023" -> R(2023)
    [] text = "2024" -> R(2024)
    [] OTHER -> NaN

\* text.toLowerCase()
ToLowerCase(text) ==
  CASE text = "January" -> "january"
    [] text = "February" -> "february"
    [] text = "December" -> "december"
    [] text = "January_Re" -> "january_re"
    [] OTHER -> text

monthNames ==
  [january |-> 0, february |-> 1, march |-> 2, april |-> 3, may |-> 4, june |-> 5,
   july |-> 6, august |-> 7, september |-> 8, october |-> 9, november |-> 10,
   december |-> 11]

MonthLabels ==
  <<"January", "February", "March", "April", "May", "June", "July", "August",
    "September", "October", "November", "December">>

DateOf(year, month) == [year |-> year, month |-> month]

Timestamp(date) == date.year * 12 + date.month

DateFromParts(parts) ==
  IF Len(parts) # 2 THEN Null
  ELSE IF IsNaN(ParseInt(parts[1])) \/ ToLowerCase(parts[2]) \notin DOMAIN monthNames
       THEN Null
  ELSE Some(DateOf(ParseInt(parts[1])[1], monthNames[ToLowerCase(parts[2])]))

\* parseMonthToDate(monthStr): Some(date) or Null.
parseMonthToDate(monthStr) ==
  IF monthStr = "" THEN Null ELSE DateFromParts(SplitMonth(monthStr))

formatDateToMonth(date) == ToString(date.year) \o " " \o MonthLabels[date.month + 1]

addMonthsWithinYear(date, months) ==
  DateOf(date.year, (date.month + months) % 12)

\* addMonths: setMonth(getMonth() + months) on the first day of a month.
addMonths(date, months) ==
  DateOf((Timestamp(date) + months) \div 12, (Timestamp(date) + months) % 12)

(***************************************************************************)
(* part_007: preprocessTradeData.  Maps are insertion-ordered sequences of *)
(* entries; a template string is the concatenation of its parts.           *)
(***************************************************************************)
\* `${a}_${b}`
Joined(a, b) == a \o "_" \o b

\* text.endsWith(suffix)
EndsWith(text, suffix) ==
  /\ Len(suffix) <= Len(text)
  /\ SubSeq(text, Len(text) - Len(suffix) + 1, Len(text)) = suffix

\* The positions at which pattern occurs in text.
Occurrences(text, pattern) ==
  {i \in 1..(Len(text) - Len(pattern) + 1) : SubSeq(text, i, i + Len(pattern) - 1) = pattern}

CutAt(text, pattern, at) ==
  SubSeq(text, 1, at - 1) \o SubSeq(text, at + Len(pattern), Len(text))

\* text.replace(pattern, ''): the first occurrence of the string pattern is
\* removed.
RemoveFirst(text, pattern) ==
  IF Occurrences(text, pattern) = {} THEN text
  ELSE CutAt(text, pattern,
             CHOOSE i \in Occurrences(text, pattern) :
               \A j \in Occurrences(text, pattern) : i <= j)

TradeColumns(columns) ==
  [monthCol |-> FindCol(columns, {"month", "date", "period"}),
   countryCol |-> FindCol(columns, {"country", "countries", "territory", "region"}),
   valueCol |-> FindCol(columns, {"value", "amount", "volume"}),
   statisticCol |-> FindCol(columns, {"statistic", "type", "stat"})]

\* parseFloat of a cell of the model: a number, or null (NaN).
ParseFloat(cell) == IF cell = Null THEN NaN ELSE cell[1]

\* What the forEach at lines 75-105 reads from one row.
TradeRow(row, cols) ==
  [monthStr |-> Cell(row, cols.monthCol),
   value |-> ParseFloat(Cell(row, cols.valueCol)),
   country |-> IF cols.countryCol = Null THEN "All" ELSE TextOf(Cell(row, cols.countryCol)),
   statistic |-> IF cols.statisticCol = Null THEN "Value"
                 ELSE TextOf(Cell(row, cols.statisticCol))]

\* map.set(key, (map.get(key) || 0) + value) on an insertion-ordered map of sums.
SumAt(sums, key, value, at) ==
  IF at = 0 THEN Append(sums, [key |-> key, value |-> RAdd(R(0), value)])
  ELSE [sums EXCEPT ![at].value = RAdd(ROr(@, R(0)), value)]

SumIn(sums, key, value) == SumAt(sums, key, value, KeyIndex(sums, key, 1))

MonthlyAt(monthly, r, at) ==
  IF at = 0
  THEN Append(monthly, [key |-> Joined(r.monthStr[1], r.statistic), month |-> r.monthStr[1],
                        statistic |-> r.statistic, totalValue |-> RAdd(R(0), r.value),
                        count |-> 1,
                        countries |-> <<[key |-> r.country, value |-> RAdd(R(0), r.value)]>>])
  ELSE [monthly EXCEPT ![at].totalValue = RAdd(@, r.value),
                       ![at].count = @ + 1,
                       ![at].countries = SumIn(@, r.country, r.value)]

\* statisticTypes.add(statistic)
AddType(types, type) == IF type \in Range(types) THEN types ELSE Append(types, type)

\* One pass of data.forEach: acc holds monthlyData, countryTotals, statisticTypes.
AggregateRow(acc, r) ==
  IF ~TruthyText(r.monthStr) \/ IsNaN(r.value) THEN acc
  ELSE [monthly |-> MonthlyAt(acc.monthly, r,
                              KeyIndex(acc.monthly, Joined(r.monthStr[1], r.statistic), 1)),
        totals |-> SumIn(acc.totals, Joined(r.country, r.statistic), r.value),
        types |-> AddType(acc.types, r.statistic)]

RECURSIVE Aggregate(_, _, _)
Aggregate(data, cols, k) ==
  IF k = 0 THEN [monthly |-> <<>>, totals |-> <<>>, types |-> <<>>]
  ELSE AggregateRow(Aggregate(data, cols, k - 1), TradeRow(data[k], cols))

\* entries sorted by value, largest first, cut to the first n.
TopEntries(entries, n) ==
  SubSeq(SortDescending(entries, Arr([i \in DOMAIN entries |-> entries[i].value])),
         1, IF Len(entries) < n THEN Len(entries) ELSE n)

\* .map(([country, val]) => ({ country, value: val }))
AsCountries(entries) ==
  Arr([i \in DOMAIN entries |-> [country |-> entries[i].key, value |-> entries[i].value]])

\* The point pushed to a series for one monthlyData entry with date date.
SeriesPoint(entry, date) ==
  [month |-> entry.month, date |-> date, timestamp |-> Timestamp(date),
   value |-> entry.totalValue, count |-> entry.count,
   topCountries |-> AsCountries(TopEntries(entry.countries, 5))]

PushPointAt(series, type, point, at) ==
  IF at = 0 THEN Append(series, [key |-> type, series |-> <<point>>])
  ELSE [series EXCEPT ![at].series = Append(@, point)]

PushEntry(series, entry, date) ==
  IF date = Null THEN series
  ELSE PushPointAt(series, entry.statistic, SeriesPoint(entry, date[1]),
                   KeyIndex(series, entry.statistic, 1))

RECURSIVE SeriesOf(_, _)
SeriesOf(monthly, k) ==
  IF k = 0 THEN <<>>
  ELSE PushEntry(SeriesOf(monthly, k - 1), monthly[k], parseMonthToDate(monthly[k].month))

\* series.sort((a, b) => a.timestamp - b.timestamp)
SortByDate(series) ==
  SortDescending(series, Arr([i \in DOMAIN series |-> R(-series[i].timestamp)]))

SortedSeries(seriesByType) ==
  Arr([t \in DOMAIN seriesByType |->
         [key |-> seriesByType[t].key, series |-> SortByDate(seriesByType[t].series)]])

\* .map(([key, value]) => ({ country: key.replace(`_${stat}`, ''), value }))
WithoutType(entries, stat) ==
  Arr([i \in DOMAIN entries |->
         [country |-> RemoveFirst(entries[i].key, Joined("", stat)),
          value |-> entries[i].value]])

\* The countries of one statistic type, by total value, at most 10.
CountriesOf(totals, stat) ==
  TopEntries(WithoutType(SelectSeq(totals, LAMBDA e : EndsWith(e.key, Joined("", stat))),
                         stat), 10)

TradeProcessed(cols, acc) ==
  [seriesByType |-> SortedSeries(SeriesOf(acc.monthly, Len(acc.monthly))),
   statisticTypes |-> acc.types,
   topCountries |-> Arr([t \in DOMAIN acc.types |->
                           [key |-> acc.types[t],
                            countries |-> CountriesOf(acc.totals, acc.types[t])]]),
   monthCol |-> cols.monthCol, valueCol |-> cols.valueCol, countryCol |-> cols.countryCol]

TradeWith(data, cols) ==
  IF cols.monthCol = Null \/ cols.valueCol = Null
  THEN Threw("Dataset must have Month and Value columns")
  ELSE Returned(TradeProcessed(cols, Aggregate(data, cols, Len(data))))

preprocessTradeData(data) == TradeWith(data, TradeColumns(Columns(data)))

(***************************************************************************)
(* part_007: TradeForecaster.  models is an insertion-ordered map:         *)
(* a sequence of [key |-> type, model, series, lastDate].                  *)
(***************************************************************************)
TFNew == [models |-> <<>>, processedData |-> Null, trained |-> FALSE]

\* this.models.set(type, {model, series, lastDate})
SetModelAt(models, entry, at) ==
  IF at = 0 THEN Append(models, entry) ELSE [models EXCEPT ![at] = entry]

SetModel(models, entry) == SetModelAt(models, entry, KeyIndex(models, entry.key, 1))

SeriesValues(series) == Arr([i \in DOMAIN series |-> series[i].value])

\* The try block of train for one series; acc holds this.models and trainResults.
TrainSeriesWith(acc, type, series, fit) ==
  IF fit.out.kind = "error" THEN acc
  ELSE [models |-> SetModel(acc.models,
                            [key |-> type, model |-> fit.obj, series |-> series,
                             lastDate |-> series[Len(series)].date]),
        results |-> Append(acc.results,
                      [key |-> type, stats |-> HoltGetStats(fit.obj),
                       dataPoints |-> Len(series),
                       dateRange |-> [start |-> series[1].month,
                                      end |-> series[Len(series)].month]])]

TrainSeries(acc, entry, alpha, beta) ==
  IF Len(entry.series) < 3 THEN acc
  ELSE TrainSeriesWith(acc, entry.key, entry.series,
                       HoltFit(HoltNew(alpha, beta), SeriesValues(entry.series)))

RECURSIVE TrainAllSeries(_, _, _, _, _)
TrainAllSeries(models, seriesByType, alpha, beta, k) ==
  IF k = 0 THEN [models |-> models, results |-> <<>>]
  ELSE TrainSeries(TrainAllSeries(models, seriesByType, alpha, beta, k - 1),
                   seriesByType[k], alpha, beta)

TFTrained(processed, acc) ==
  [obj |-> [models |-> acc.models, processedData |-> Some(processed), trained |-> TRUE],
   out |-> Returned(acc.results)]

TFTrainProcessed(m, processed, alpha, beta) ==
  IF processed.kind = "error" THEN [obj |-> m, out |-> processed]
  ELSE TFTrained(processed.value,
                 TrainAllSeries(m.models, processed.value.seriesByType, alpha, beta,
                                Len(processed.value.seriesByType)))

\* TradeForecaster.train(data, {alpha, beta}).
TFTrain(m, data, alpha, beta) == TFTrainProcessed(m, preprocessTradeData(data), alpha, beta)

ForecastEntries(intervals, lastDate) ==
  Arr([i \in DOMAIN intervals |->
         [month |-> formatDateToMonth(addMonths(lastDate, i)),
          date |-> addMonths(lastDate, i),
          prediction |-> intervals[i].prediction,
          lower |-> intervals[i].lower,
          upper |-> intervals[i].upper,
          isForecast |-> TRUE]])

Historical(series) ==
  Arr([i \in DOMAIN series |->
         [month |-> series[i].month, date |-> series[i].date,
          value |-> series[i].value, isForecast |-> FALSE]])

ForecastResult(historical, forecasts) ==
  [historical |-> historical, forecasts |-> forecasts, combined |-> historical \o forecasts]

ForecastWith(modelData, intervals) ==
  IF intervals.kind = "error" THEN intervals
  ELSE Returned(ForecastResult(Historical(modelData.series),
                               ForecastEntries(intervals.value, modelData.lastDate)))

ForecastAt(m, type, steps, at) ==
  IF at = 0 THEN Threw("No model for type")
  ELSE ForecastWith(m.models[at],
                    HoltConfidenceIntervals(m.models[at].model, steps, Q(95, 100)))

\* TradeForecaster.forecast(type, steps).
TFForecast(m, type, steps) ==
  IF ~m.trained THEN Threw("Model not trained")
  ELSE ForecastAt(m, type, steps, KeyIndex(m.models, type, 1))

TFStatsAt(m, at) ==
  IF at = 0 THEN Returned(Null) ELSE Returned(HoltGetStats(m.models[at].model))

\* TradeForecaster.getStats(type).
TFGetStats(m, type) == TFStatsAt(m, KeyIndex(m.models, type, 1))

\* TradeForecaster.getStatisticTypes().
TFGetStatisticTypes(m) ==
  IF m.processedData = Null THEN Returned(<<>>)
  ELSE Returned(m.processedData[1].statisticTypes)

TopCountriesAt(topCountries, at) ==
  IF at = 0 THEN Returned(<<>>) ELSE Returned(topCountries[at].countries)

\* TradeForecaster.getTopCountries(type).
TFGetTopCountries(m, type) ==
  IF m.processedData = Null THEN Returned(<<>>)
  ELSE TopCountriesAt(m.processedData[1].topCountries,
                      KeyIndex(m.processedData[1].topCountries, type, 1))

(***************************************************************************)
(* part_006 (ID3 decision tree).  The rows handed to the classifier map    *)
(* feature and target columns to strings.  Plain objects used as maps      *)
(* (counts, groups, children, distribution) are insertion-ordered          *)
(* sequences of entries; the strings of the model are not integer-like, so *)
(* Object.entries keeps the insertion order.  A lookup obj[key] that finds *)
(* no own entry falls through to Object.prototype: for the keys in         *)
(* ProtoKeys it yields an inherited function (truthy), else undefined.     *)
(* Target labels of the tables handed to DecisionTreeClassifier.train are  *)
(* never in ProtoKeys; those of the tables handed to buildTree may be.     *)
(***************************************************************************)
ProtoKeys == {"constructor", "toString", "valueOf", "hasOwnProperty"}

\* Math.log2 of the probabilities the model meets: exact for powers of two,
\* log2(3) and log2(5) to three decimals.
Log2Int(n) ==
  CASE n = 1 -> R(0)
    [] n = 2 -> R(1)
    [] n = 3 -> Q(1585, 1000)
    [] n = 4 -> R(2)
    [] n = 5 -> Q(2322, 1000)
    [] n = 6 -> Q(2585, 1000)
    [] n = 8 -> R(3)

Log2(p) == RSub(Log2Int(p[1]), Log2Int(p[2]))

\* The string that (counts[label] || 0) + 1 leaves for a label in ProtoKeys:
\* the first lookup finds the inherited function, and + 1 appends "1" to its
\* text; every further row of the label appends another "1".
FunctionText(ones) == [text |-> "function", ones |-> ones]

\* counts[label] = (counts[label] || 0) + 1, label at position `at` of counts.
LabelCountAt(counts, label, at) ==
  IF label \notin ProtoKeys THEN CountAt(counts, label, at)
  ELSE IF at = 0 THEN Append(counts, [key |-> label, count |-> FunctionText(1)])
  ELSE [counts EXCEPT ![at].count = FunctionText(@.ones + 1)]

LabelCountIn(counts, label) == LabelCountAt(counts, label, KeyIndex(counts, label, 1))

\* The count of an entry of counts is a number, not such a string.
Counted(entry) == entry.key \notin ProtoKeys

\* counts[label] = (counts[label] || 0) + 1 over the rows data[1..k].
RECURSIVE LabelCounts(_, _, _)
LabelCounts(data, targetColumn, k) ==
  IF k = 0 THEN <<>>
  ELSE LabelCountIn(LabelCounts(data, targetColumn, k - 1), data[k][targetColumn])

\* The loop of calculateEntropy over Object.values(counts); a count that is a
\* string gives the probability NaN, which is not > 0 and adds nothing.
EntropyOf(counts, total) ==
  RSum(Arr([i \in DOMAIN counts |->
              IF Counted(counts[i])
              THEN RNeg(RMul(Q(counts[i].count, total), Log2(Q(counts[i].count, total))))
              ELSE R(0)]))

calculateEntropy(data, targetColumn) ==
  IF Len(data) = 0 THEN R(0)
  ELSE EntropyOf(LabelCounts(data, targetColumn, Len(data)), Len(data))

\* if (!groups[value]) groups[value] = []; groups[value].push(row): groups is
\* Threw(...) once a value in ProtoKeys has met the inherited function, which
\* has no push.
GroupAt(groups, value, row, at) ==
  IF at # 0 THEN [groups EXCEPT ![at].rows = Append(@, row)]
  ELSE Append(groups, [key |-> value, rows |-> <<row>>])

GroupRow(groups, value, row) ==
  IF groups.kind = "error" THEN groups
  ELSE IF KeyIndex(groups.value, value, 1) = 0 /\ value \in ProtoKeys
       THEN Threw("TypeError: groups[value].push is not a function")
  ELSE Returned(GroupAt(groups.value, value, row, KeyIndex(groups.value, value, 1)))

RECURSIVE GroupBy(_, _, _)
GroupBy(data, feature, k) ==
  IF k = 0 THEN Returned(<<>>)
  ELSE GroupRow(GroupBy(data, feature, k - 1), data[k][feature], data[k])

WeightedEntropy(groups, targetColumn, total) ==
  RSum(Arr([g \in DOMAIN groups |->
              RMul(Q(Len(groups[g].rows), total),
                   calculateEntropy(groups[g].rows, targetColumn))]))

GainOver(data, targetColumn, groups) ==
  IF groups.kind = "error" THEN groups
  ELSE Returned(RSub(calculateEntropy(data, targetColumn),
                     WeightedEntropy(groups.value, targetColumn, Len(data))))

\* calculateInformationGain: Returned(gain), or Threw.
calculateInformationGain(data, feature, targetColumn) ==
  GainOver(data, targetColumn, GroupBy(data, feature, Len(data)))

\* One pass of features.forEach in findBestFeature; best is Returned of
\* {feature, gain} so far (bestGain starts at -Infinity), or Threw.
BetterFeature(best, feature, gain) ==
  IF best.kind = "error" THEN best
  ELSE IF gain.kind = "error" THEN gain
  ELSE IF RLt(best.value.gain, gain.value)
       THEN Returned([feature |-> Some(feature), gain |-> gain.value])
  ELSE best

TryFeature(best, data, feature, targetColumn) ==
  IF best.kind = "error" THEN best
  ELSE BetterFeature(best, feature, calculateInformationGain(data, feature, targetColumn))

RECURSIVE BestOf(_, _, _, _)
BestOf(data, features, targetColumn, k) ==
  IF k = 0 THEN Returned([feature |-> Null, gain |-> NegInf])
  ELSE TryFeature(BestOf(data, features, targetColumn, k - 1), data, features[k],
                  targetColumn)

findBestFeature(data, features, targetColumn) ==
  BestOf(data, features, targetColumn, Len(features))

\* One pass of the loop of getMajorityClass over Object.entries(counts).
MajorityStep(best, entry) ==
  IF Counted(entry) /\ entry.count > best.count THEN [label |-> Some(entry.key), count |-> entry.count]
  ELSE best

RECURSIVE MajorityOf(_, _)
MajorityOf(counts, k) ==
  IF k = 0 THEN [label |-> Null, count |-> 0]
  ELSE MajorityStep(MajorityOf(counts, k - 1), counts[k])

MajorityRecord(best, total) == [label |-> best.label, count |-> best.count, total |-> total]

MajorityIn(counts, total) == MajorityRecord(MajorityOf(counts, Len(counts)), total)

\* getMajorityClass: label is Some(label), or Null for no rows.
getMajorityClass(data, targetColumn) ==
  MajorityIn(LabelCounts(data, targetColumn, Len(data)), Len(data))

\* (x).toFixed(1) for x >= 0: the decimal string with one fractional digit,
\* kept as its number of tenths, and "NaN" for NaN; parseFloat reads it back
\* as tenths / 10, or as NaN.
ToFixed1(x) ==
  IF IsNaN(x) THEN [nan |-> TRUE, tenths |-> 0]
  ELSE [nan |-> FALSE, tenths |-> RRound(RMul(x, R(10)))[1]]

ParseFixed1(text) == IF text.nan THEN NaN ELSE Q(text.tenths, 10)

DistributionOf(counts, total) ==
  Arr([i \in DOMAIN counts |->
         [key |-> counts[i].key, count |-> counts[i].count,
          percentage |-> IF Counted(counts[i])
                         THEN ToFixed1(RMul(Q(counts[i].count, total), R(100)))
                         ELSE ToFixed1(NaN)]])

getClassDistribution(data, targetColumn) ==
  DistributionOf(LabelCounts(data, targetColumn, Len(data)), Len(data))

\* The leaf of an empty subset has no distribution.
UnknownLeaf ==
  [type |-> "leaf", label |-> "Unknown", confidence |-> R(0), samples |-> 0,
   distribution |-> Null]

\* The label of a majority: null, written NoLabel, when no count was a number
\* greater than 0.
NoLabel == "null"

LabelValue(label) == IF label = Null THEN NoLabel ELSE label[1]

MajorityLeaf(data, targetColumn, majority) ==
  [type |-> "leaf", label |-> LabelValue(majority.label),
   confidence |-> Q(majority.count, majority.total), samples |-> majority.total,
   distribution |-> Some(getClassDistribution(data, targetColumn))]

\* counts[label] = (counts[label] || 0) + 1 over a run of run.copies rows that
\* carry the label run.label.
CountRunAt(counts, run, at) ==
  IF at = 0 THEN Append(counts, [key |-> run.label, count |-> run.copies])
  ELSE [counts EXCEPT ![at].count = @ + run.copies]

\* The counts of a table given as its runs of rows of equal label.
RECURSIVE RunCounts(_, _)
RunCounts(runs, k) ==
  IF k = 0 THEN <<>>
  ELSE CountRunAt(RunCounts(runs, k - 1), runs[k],
                  KeyIndex(RunCounts(runs, k - 1), runs[k].label, 1))

RECURSIVE RunTotal(_, _)
RunTotal(runs, k) == IF k = 0 THEN 0 ELSE RunTotal(runs, k - 1) + runs[k].copies

LeafOfCounts(counts, majority) ==
  [type |-> "leaf", label |-> LabelValue(majority.label),
   confidence |-> Q(majority.count, majority.total), samples |-> majority.total,
   distribution |-> Some(DistributionOf(counts, majority.total))]

LeafOf(counts, total) ==
  IF total = 0 THEN UnknownLeaf ELSE LeafOfCounts(counts, MajorityIn(counts, total))

\* buildTree(data, [], targetColumn) on the table made of runs: with no
\* feature left to split on, the tree is a leaf.
BuildLeaf(runs) == LeafOf(RunCounts(runs, Len(runs)), RunTotal(runs, Len(runs)))

\* [...new Set(data.map(row => row[feature]))]: the values in order of first
\* occurrence.
RECURSIVE UniqueValues(_, _, _)
UniqueValues(data, feature, k) ==
  IF k = 0 THEN <<>>
  ELSE AddType(UniqueValues(data, feature, k - 1), data[k][feature])

\* The first error among the subtrees built for the children, if any.
FirstError(built) ==
  built[CHOOSE i \in DOMAIN built :
          built[i].kind = "error" /\ \A j \in 1..(i - 1) : built[j].kind # "error"]

DecisionNode(best, majority, values, built) ==
  IF \E i \in DOMAIN built : built[i].kind = "error" THEN FirstError(built)
  ELSE Returned([type |-> "node", feature |-> best.feature[1], gain |-> best.gain,
                 samples |-> majority.total,
                 children |-> Arr([i \in DOMAIN values |->
                                     [key |-> values[i], node |-> built[i].value]]),
                 defaultPrediction |-> LabelValue(majority.label)])

RECURSIVE buildTree(_, _, _, _, _)

BuildChildren(data, feature, values, remainingFeatures, targetColumn, depth, maxDepth) ==
  Arr([i \in DOMAIN values |->
         buildTree(SelectSeq(data, LAMBDA row : row[feature] = values[i]),
                   remainingFeatures, targetColumn, depth + 1, maxDepth)])

SplitOn(data, features, targetColumn, depth, maxDepth, majority, best, values) ==
  DecisionNode(best, majority, values,
    BuildChildren(data, best.feature[1], values,
                  SelectSeq(features, LAMBDA f : f # best.feature[1]),
                  targetColumn, depth, maxDepth))

\* buildTree splitting also on a feature of no gain: a leaf only when gain < 0.
BuildWithoutGain(data, features, targetColumn, depth, maxDepth, majority, best) ==
  IF best.kind = "error" THEN best
  ELSE IF RLt(best.value.gain, R(0))
       THEN Returned(MajorityLeaf(data, targetColumn, majority))
  ELSE SplitOn(data, features, targetColumn, depth, maxDepth, majority, best.value,
               UniqueValues(data, best.value.feature[1], Len(data)))

BuildWith(data, features, targetColumn, depth, maxDepth, majority, best) ==
  IF best.kind = "error" THEN best
  ELSE IF RLe(best.value.gain, R(0))
       THEN Returned(MajorityLeaf(data, targetColumn, majority))
  ELSE SplitOn(data, features, targetColumn, depth, maxDepth, majority, best.value,
               UniqueValues(data, best.value.feature[1], Len(data)))

\* buildTree stopping one level late: a leaf only when depth > maxDepth.
BuildFromPastDepth(data, features, targetColumn, depth, maxDepth, majority) ==
  IF majority.count = majority.total \/ depth > maxDepth \/ Len(features) = 0
  THEN Returned(MajorityLeaf(data, targetColumn, majority))
  ELSE BuildWith(data, features, targetColumn, depth, maxDepth, majority,
                 findBestFeature(data, features, targetColumn))

BuildFrom(data, features, targetColumn, depth, maxDepth, majority) ==
  IF majority.count = majority.total \/ depth >= maxDepth \/ Len(features) = 0
  THEN Returned(MajorityLeaf(data, targetColumn, majority))
  ELSE BuildWith(data, features, targetColumn, depth, maxDepth, majority,
                 findBestFeature(data, features, targetColumn))

\* buildTree: Returned(tree), or Threw when grouping the rows throws.
buildTree(data, features, targetColumn, depth, maxDepth) ==
  IF Len(data) = 0 THEN Returned(UnknownLeaf)
  ELSE BuildFrom(data, features, targetColumn, depth, maxDepth,
                 getMajorityClass(data, targetColumn))

\* sample[feature] as a property key.
SampleKey(sample, feature) ==
  IF feature \in DOMAIN sample THEN sample[feature] ELSE "undefined"

RECURSIVE TreePredict(_, _)

\* predict at a decision node: at is the position of the own child for the
\* sample's value, 0 when there is none.  An inherited function passes the
\* truthiness test and the recursive call then reads a property of its
\* undefined children.
PredictBranch(tree, sample, key, at) ==
  IF at # 0 THEN TreePredict(tree.children[at].node, sample)
  ELSE IF key \in ProtoKeys
       THEN Threw("TypeError: Cannot read properties of undefined")
  ELSE Returned([prediction |-> tree.defaultPrediction, confidence |-> Q(1, 2),
                 distribution |-> Some(<<>>)])

\* predict(tree, sample) of part_006.
TreePredict(tree, sample) ==
  IF tree.type = "leaf"
  THEN Returned([prediction |-> tree.label, confidence |-> tree.confidence,
                 distribution |-> tree.distribution])
  ELSE PredictBranch(tree, sample, SampleKey(sample, tree.feature),
                     KeyIndex(tree.children, SampleKey(sample, tree.feature), 1))

TopNOf(distribution, n) ==
  SubSeq(SortDescending(
           Arr([i \in DOMAIN distribution |->
                  [label |-> distribution[i].key,
                   confidence |-> ParseFixed1(distribution[i].percentage)]]),
           Arr([i \in DOMAIN distribution |-> ParseFixed1(distribution[i].percentage)])),
         1, IF Len(distribution) < n THEN Len(distribution) ELSE n)

TopNFrom(result, n) ==
  IF result.kind = "error" THEN result
  ELSE IF result.value.distribution = Null \/ result.value.distribution = Some(<<>>)
       THEN Returned(<<[label |-> result.value.prediction,
                        confidence |-> RMul(result.value.confidence, R(100))]>>)
  ELSE Returned(TopNOf(result.value.distribution[1], n))

\* predictTopN(tree, sample, n) of part_006.
TreePredictTopN(tree, sample, n) == TopNFrom(TreePredict(tree, sample), n)

\* trainTestSplit(data, 0.2): shuffled is data in the order the random
\* comparator of the sort leaves it, given here as a permutation of indices.
SplitIndex(n) == (n * 4) \div 5

trainTestSplit(data, order) ==
  [train |-> SubSeq(Permute(data, order), 1, SplitIndex(Len(data))),
   test |-> SubSeq(Permute(data, order), SplitIndex(Len(data)) + 1, Len(data))]

\* calculateAccuracy: Returned(correct / testData.length), or the first throw
\* of predict.
AccuracyFrom(testData, targetColumn, results) ==
  IF \E i \in DOMAIN results : results[i].kind = "error" THEN FirstError(results)
  ELSE Returned(Q(Cardinality({i \in DOMAIN results :
                                 results[i].value.prediction = testData[i][targetColumn]}),
                  Len(testData)))

calculateAccuracy(tree, testData, targetColumn) ==
  AccuracyFrom(testData, targetColumn,
               Arr([i \in DOMAIN testData |-> TreePredict(tree, testData[i])]))

\* getFeatureImportance(tree, importance): gain * samples added per decision
\* node, the node before its children, the children in order.
RECURSIVE TreeImportance(_, _)
RECURSIVE ChildrenImportance(_, _, _)
ChildrenImportance(children, k, importance) ==
  IF k = 0 THEN importance
  ELSE TreeImportance(children[k].node, ChildrenImportance(children, k - 1, importance))

TreeImportance(tree, importance) ==
  IF tree.type = "leaf" THEN importance
  ELSE ChildrenImportance(tree.children, Len(tree.children),
         SumIn(importance, tree.feature,
               RMul(ROr(tree.gain, R(0)), R(IF tree.samples = 0 THEN 1 ELSE tree.samples))))

NormalizedImportance(rawImportance, totalImportance) ==
  Arr([i \in DOMAIN rawImportance |->
         [key |-> rawImportance[i].key,
          value |-> IF RLt(R(0), totalImportance)
                    THEN RDiv(rawImportance[i].value, totalImportance) ELSE R(0)]])

ImportanceFrom(rawImportance) ==
  NormalizedImportance(rawImportance,
    RSum(Arr([i \in DOMAIN rawImportance |-> rawImportance[i].value])))

\* getTreeStats(tree, stats, depth): the decision nodes and leaves counted
\* and the greatest depth met, the node before its children.
RECURSIVE TreeStatsAt(_, _, _)
RECURSIVE ChildrenStats(_, _, _, _)
ChildrenStats(children, k, stats, depth) ==
  IF k = 0 THEN stats
  ELSE TreeStatsAt(children[k].node, ChildrenStats(children, k - 1, stats, depth), depth)

TreeStatsAt(tree, stats, depth) ==
  IF tree.type = "leaf"
  THEN [stats EXCEPT !.leaves = @ + 1, !.maxDepth = IF depth > @ THEN depth ELSE @]
  ELSE ChildrenStats(tree.children, Len(tree.children),
         [stats EXCEPT !.nodes = @ + 1, !.maxDepth = IF depth > @ THEN depth ELSE @],
         depth + 1)

getTreeStats(tree) == TreeStatsAt(tree, [nodes |-> 0, leaves |-> 0, maxDepth |-> 0], 0)

(***************************************************************************)
(* part_006: class DecisionTreeClassifier.                                 *)
(***************************************************************************)
TreeNew(maxDepth) ==
  [maxDepth |-> maxDepth, tree |-> Null, features |-> <<>>, targetColumn |-> Null,
   accuracy |-> R(0), featureImportance |-> <<>>, trainSize |-> 0, testSize |-> 0]

TreeTrained(m, accuracy, featureImportance) ==
  [obj |-> [m EXCEPT !.accuracy = accuracy, !.featureImportance = featureImportance],
   out |-> Returned([accuracy |-> accuracy, trainSize |-> m.trainSize,
                     testSize |-> m.testSize, featureImportance |-> featureImportance])]

\* train from line 438 on: this.tree is already assigned.
TreeTrainScored(m, accuracy) ==
  IF accuracy.kind = "error" THEN [obj |-> m, out |-> accuracy]
  ELSE TreeTrained(m, accuracy.value, ImportanceFrom(TreeImportance(m.tree[1], <<>>)))

\* train from line 435 on.
TreeTrainBuilt(m, split, built) ==
  IF built.kind = "error" THEN [obj |-> m, out |-> built]
  ELSE TreeTrainScored([m EXCEPT !.tree = Some(built.value)],
                       calculateAccuracy(built.value, split.test, m.targetColumn[1]))

TreeTrainSplit(m, split) ==
  TreeTrainBuilt([m EXCEPT !.trainSize = Len(split.train), !.testSize = Len(split.test)],
                 split, buildTree(split.train, m.features, m.targetColumn[1], 0, m.maxDepth))

\* DecisionTreeClassifier.train(data, features, targetColumn); order is the
\* outcome of the shuffle.
TreeTrain(m, data, features, targetColumn, order) ==
  TreeTrainSplit([m EXCEPT !.features = features, !.targetColumn = Some(targetColumn)],
                 trainTestSplit(data, order))

\* DecisionTreeClassifier.predict(sample).
ClassifierPredict(m, sample) ==
  IF m.tree = Null THEN Threw("Model not trained yet") ELSE TreePredict(m.tree[1], sample)

\* DecisionTreeClassifier.predictTopN(sample, n).
ClassifierPredictTopN(m, sample, n) ==
  IF m.tree = Null THEN Threw("Model not trained yet")
  ELSE TreePredictTopN(m.tree[1], sample, n)

(***************************************************************************)
(* priceSensitivity.js: parsing and bucketing of prices.  A survey cell is *)
(* Null, a number [kind |-> "number", value] or a string                   *)
(* [kind |-> "text", chars], chars being the sequence of its characters.   *)
(***************************************************************************)
NumberCell(value) == [kind |-> "number", value |-> value]

TextCell(chars) == [kind |-> "text", chars |-> chars]

Digits == <<"0", "1", "2", "3", "4", "5", "6", "7", "8", "9">>

IsDigit(ch) == \E d \in DOMAIN Digits : Digits[d] = ch

DigitValue(ch) == (CHOOSE d \in DOMAIN Digits : Digits[d] = ch) - 1

\* The number of digits of chars from position i on.
RECURSIVE DigitRun(_, _)
DigitRun(chars, i) ==
  IF i > Len(chars) \/ ~IsDigit(chars[i]) THEN 0 ELSE 1 + DigitRun(chars, i + 1)

\* The decimal value of the digits chars[from..to].
RECURSIVE DigitsValue(_, _, _)
DigitsValue(chars, from, to) ==
  IF to < from THEN 0
  ELSE DigitsValue(chars, from, to - 1) * 10 + DigitValue(chars[to])

RECURSIVE PowerOfTen(_)
PowerOfTen(k) == IF k = 0 THEN 1 ELSE 10 * PowerOfTen(k - 1)

\* parseFloat of a string of digits and dots: whole is the length of the
\* leading digits, frac that of the digits after a dot that follows them.
DecimalOf(chars, whole, frac) ==
  IF whole + frac = 0 THEN NaN
  ELSE RAdd(R(DigitsValue(chars, 1, whole)),
            Q(DigitsValue(chars, whole + 2, whole + 1 + frac), PowerOfTen(frac)))

DecimalWith(chars, whole) ==
  DecimalOf(chars, whole,
            IF whole < Len(chars) /\ chars[whole + 1] = "." THEN DigitRun(chars, whole + 2)
            ELSE 0)

ParseDecimal(chars) == DecimalWith(chars, DigitRun(chars, 1))

\* The currency signs, then all but digits and dots, are removed, and the rest
\* trimmed: digits and dots stay.
CleanPrice(chars) == SelectSeq(chars, LAMBDA ch : IsDigit(ch) \/ ch = ".")

NullIfNaN(num) == IF IsNaN(num) THEN Null ELSE Some(num)

\* parsePrice(priceStr): Some(number) or Null.  String(n) of a number cell of
\* the model is its decimal notation, of which the cleaning drops the sign.
parsePrice(cell) ==
  IF cell = Null THEN Null
  ELSE IF cell.kind = "number"
       THEN IF cell.value = R(0) \/ ~IsFinite(cell.value) THEN Null
            ELSE Some(RAbs(cell.value))
  ELSE IF cell.chars = <<>> THEN Null
  ELSE NullIfNaN(ParseDecimal(CleanPrice(cell.chars)))

\* categorizePriceWillingness with the thresholds themselves excluded.
categorizeBelowThresholds(price) ==
  IF price = Null THEN Null
  ELSE IF RLt(price[1], R(3)) THEN Some("budget")
  ELSE IF RLt(price[1], Q(9, 2)) THEN Some("moderate")
  ELSE Some("premium")

\* categorizePriceWillingness(price): Some(tier) or Null.
categorizePriceWillingness(price) ==
  IF price = Null THEN Null
  ELSE IF RLe(price[1], R(3)) THEN Some("budget")
  ELSE IF RLe(price[1], Q(9, 2)) THEN Some("moderate")
  ELSE Some("premium")

(***************************************************************************)
(* priceSensitivity.js: the Gini DecisionTreeClassifier.  X is a sequence  *)
(* of rows of numbers, y the sequence of their labels (strings).  Feature  *)
(* indices are kept 0-based as in the source: row[f] is row[f + 1] here.   *)
(* An object keyed by labels lists its integer-like keys first, ascending, *)
(* then the other keys in insertion order.                                 *)
(***************************************************************************)
\* The integer a property key denotes, -1 if it is not integer-like.
IndexKeyValue(key) ==
  CASE key = "0" -> 0 [] key = "1" -> 1 [] key = "2" -> 2 [] key = "3" -> 3
    [] OTHER -> -1

\* Object.entries of an object whose own keys were inserted in this order.
ObjectEntries(entries) ==
  SortDescending(SelectSeq(entries, LAMBDA e : IndexKeyValue(e.key) >= 0),
                 Arr([i \in DOMAIN SelectSeq(entries, LAMBDA e : IndexKeyValue(e.key) >= 0) |->
                        R(-IndexKeyValue(SelectSeq(entries,
                                           LAMBDA e : IndexKeyValue(e.key) >= 0)[i].key))]))
    \o SelectSeq(entries, LAMBDA e : IndexKeyValue(e.key) < 0)

Indices(n) == Arr([i \in 1..n |-> i])

Pick(s, indices) == Arr([i \in DOMAIN indices |-> s[indices[i]]])

\* [...new Set(y)]: the values of y in order of first occurrence.
UniqueOf(y) == Pick(y, SelectSeq(Indices(Len(y)), LAMBDA i : \A j \in 1..(i - 1) : y[j] # y[i]))

\* The object that counts[val] = (counts[val] || 0) + 1 over the values
\* leaves, the keys `zeroed` having been set to 0 before: its entries in
\* insertion order.
TallyOver(keys, values) ==
  Arr([i \in DOMAIN keys |->
         [key |-> keys[i], count |-> Cardinality({j \in DOMAIN values : values[j] = keys[i]})]])

Tally(zeroed, values) == TallyOver(UniqueOf(zeroed \o values), values)

ValueCounts(y) == Tally(<<>>, y)

GiniOf(counts, total) ==
  RSub(R(1), RSum(Arr([i \in DOMAIN counts |->
                         RMul(Q(counts[i].count, total), Q(counts[i].count, total))])))

\* DecisionTreeClassifier.gini(y), y not empty.
gini(y) == GiniOf(ValueCounts(y), Len(y))

\* Object.entries(counts).sort((a, b) => b[1] - a[1])[0][0]
TopKey(entries) ==
  SortDescending(entries, Arr([i \in DOMAIN entries |-> R(entries[i].count)]))[1].key

\* DecisionTreeClassifier.majorityClass(y), y not empty.
majorityClass(y) == TopKey(ObjectEntries(ValueCounts(y)))

\* [...new Set(values)] for feature f of X, before the sort.
FeatureValues(X, f) == UniqueOf(Arr([i \in DOMAIN X |-> X[i][f + 1]]))

SortAscending(values) ==
  SortDescending(values, Arr([i \in DOMAIN values |-> RNeg(values[i])]))

\* The thresholds tried for feature f, in order.
Thresholds(uniqueValues) ==
  Arr([i \in 1..(Len(uniqueValues) - 1) |->
         RDiv(RAdd(uniqueValues[i], uniqueValues[i + 1]), R(2))])

LeftIndices(X, f, threshold) ==
  SelectSeq(Indices(Len(X)), LAMBDA i : RLe(X[i][f + 1], threshold))

RightIndices(X, f, threshold) ==
  SelectSeq(Indices(Len(X)), LAMBDA i : ~RLe(X[i][f + 1], threshold))

\* parentGini - weightedGini of a split into leftY and rightY.
GainOf(parentGini, leftY, rightY, total) ==
  RSub(parentGini,
       RDiv(RAdd(RMul(R(Len(leftY)), gini(leftY)), RMul(R(Len(rightY)), gini(rightY))),
            R(total)))

\* The gain of one candidate of the threshold loop of findBestSplit; a
\* candidate the loop skips never replaces the best, like a gain of -Infinity.
SplitGain(y, parentGini, leftIndices, rightIndices) ==
  IF Len(leftIndices) = 0 \/ Len(rightIndices) = 0 THEN NegInf
  ELSE GainOf(parentGini, Pick(y, leftIndices), Pick(y, rightIndices), Len(y))

\* bestGain starts at -Infinity and a candidate replaces the best when its
\* gain is greater: the best is the first of the candidates of greatest gain.
FirstGreatest(gains) ==
  CHOOSE i \in DOMAIN gains :
    /\ \A j \in DOMAIN gains : RLe(gains[j], gains[i])
    /\ \A j \in 1..(i - 1) : RLt(gains[j], gains[i])

NoSplit == [feature |-> Null, threshold |-> Null, gain |-> NegInf]

BestAmong(f, thresholds, gains) ==
  IF \A i \in DOMAIN gains : gains[i] = NegInf THEN NoSplit
  ELSE [feature |-> Some(f), threshold |-> Some(thresholds[FirstGreatest(gains)]),
        gain |-> gains[FirstGreatest(gains)]]

\* The best split on feature f alone.
BestForFeature(X, y, parentGini, f, thresholds) ==
  BestAmong(f, thresholds,
            Arr([k \in DOMAIN thresholds |->
                   SplitGain(y, parentGini, LeftIndices(X, f, thresholds[k]),
                             RightIndices(X, f, thresholds[k]))]))

BestOverall(perFeature) ==
  IF Len(perFeature) = 0 THEN NoSplit
  ELSE perFeature[FirstGreatest(Arr([k \in DOMAIN perFeature |-> perFeature[k].gain]))]

BestSplit(X, y, parentGini, featureIndices) ==
  BestOverall(Arr([k \in DOMAIN featureIndices |->
                     BestForFeature(X, y, parentGini, featureIndices[k],
                                    Thresholds(SortAscending(
                                      FeatureValues(X, featureIndices[k]))))]))

\* DecisionTreeClassifier.findBestSplit(X, y, featureIndices).
findBestSplit(X, y, featureIndices) == BestSplit(X, y, gini(y), featureIndices)

\* A TreeNode that is a leaf, and one that is a decision node.
LeafNode(prediction) ==
  [isLeaf |-> TRUE, prediction |-> Some(prediction), featureIndex |-> Null,
   threshold |-> Null, left |-> Null, right |-> Null]

SplitNode(feature, threshold, left, right) ==
  [isLeaf |-> FALSE, prediction |-> Null, featureIndex |-> Some(feature),
   threshold |-> Some(threshold), left |-> Some(left), right |-> Some(right)]

RECURSIVE giniBuildTree(_, _, _, _, _, _)

GiniSplit(X, y, depth, featureIndices, maxDepth, minSamplesSplit, f, threshold) ==
  SplitNode(f, threshold,
    giniBuildTree(Pick(X, LeftIndices(X, f, threshold)), Pick(y, LeftIndices(X, f, threshold)),
                  depth + 1, featureIndices, maxDepth, minSamplesSplit),
    giniBuildTree(Pick(X, RightIndices(X, f, threshold)),
                  Pick(y, RightIndices(X, f, threshold)),
                  depth + 1, featureIndices, maxDepth, minSamplesSplit))

GiniBuildWith(X, y, depth, featureIndices, maxDepth, minSamplesSplit, best) ==
  IF best.feature = Null \/ RLe(best.gain, R(0)) THEN LeafNode(majorityClass(y))
  ELSE GiniSplit(X, y, depth, featureIndices, maxDepth, minSamplesSplit,
                 best.feature[1], best.threshold[1])

\* DecisionTreeClassifier.buildTree(X, y, depth, featureIndices) of a tree
\* with these maxDepth and minSamplesSplit.
giniBuildTree(X, y, depth, featureIndices, maxDepth, minSamplesSplit) ==
  IF Cardinality(Range(y)) = 1 \/ depth >= maxDepth \/ Len(y) < minSamplesSplit
  THEN LeafNode(majorityClass(y))
  ELSE GiniBuildWith(X, y, depth, featureIndices, maxDepth, minSamplesSplit,
                     findBestSplit(X, y, featureIndices))

\* new DecisionTreeClassifier(maxDepth, minSamplesSplit).fit(X, y, featureNames),
\* X not empty.
giniFit(X, y, featureNames, maxDepth, minSamplesSplit) ==
  [maxDepth |-> maxDepth, minSamplesSplit |-> minSamplesSplit,
   root |-> giniBuildTree(X, y, 0, Arr([i \in DOMAIN X[1] |-> i - 1]), maxDepth,
                          minSamplesSplit),
   featureNames |-> featureNames, classes |-> UniqueOf(y)]

\* x[f] <= threshold; an absent x[f] is undefined and compares false.
GoesLeft(x, f, threshold) == (f + 1) \in DOMAIN x /\ RLe(x[f + 1], threshold)

\* The loop of predictOne from node on.
RECURSIVE Descend(_, _)
Descend(node, x) ==
  IF node.isLeaf THEN node.prediction[1]
  ELSE IF GoesLeft(x, node.featureIndex[1], node.threshold[1]) THEN Descend(node.left[1], x)
  ELSE Descend(node.right[1], x)

\* DecisionTreeClassifier.predictOne(x).
predictOne(tree, x) == Descend(tree.root, x)

(***************************************************************************)
(* priceSensitivity.js: RandomForestClassifier.  Math.random is a source   *)
(* of numbers in [0, 1): here a cyclic sequence of numerators over         *)
(* RandomScale, one of which is chosen for each fit; the k-th call         *)
(* (from 0) of a fit reads position k of its source.                       *)
(***************************************************************************)
RandomScale == 8

\* Math.floor(Math.random() * m) at the k-th call of Math.random.
Draw(source, k, m) == (source[(k % Len(source)) + 1] * m) \div RandomScale

\* new RandomForestClassifier(nTrees, maxDepth, minSamplesSplit, maxFeatures)
RFNew(nTrees, maxDepth, minSamplesSplit, maxFeatures) ==
  [nTrees |-> nTrees, maxDepth |-> maxDepth, minSamplesSplit |-> minSamplesSplit,
   maxFeatures |-> maxFeatures, trees |-> <<>>, featureSubsets |-> <<>>,
   featureNames |-> <<>>, classes |-> <<>>]

\* Math.ceil(Math.sqrt(n))
CeilSqrt(n) == CHOOSE r \in 0..n : r * r >= n /\ (r = 0 \/ (r - 1) * (r - 1) < n)

\* Math.ceil(n * 0.7); the doubles agree with the exact product for n <= 6.
CeilFraction(n) == (7 * n + 9) \div 10

SelectCount(maxFeatures, nFeatures) ==
  IF maxFeatures = "sqrt" THEN CeilSqrt(nFeatures) ELSE CeilFraction(nFeatures)

\* available.splice(idx, 1)
Splice(available, idx) ==
  SubSeq(available, 1, idx) \o SubSeq(available, idx + 2, Len(available))

\* The loop of selectFeatures with `remaining` iterations to go.
RECURSIVE SelectFrom(_, _, _, _)
SelectFrom(available, remaining, source, k) ==
  IF remaining = 0 THEN <<>>
  ELSE <<available[Draw(source, k, Len(available)) + 1]>>
         \o SelectFrom(Splice(available, Draw(source, k, Len(available))),
                       remaining - 1, source, k + 1)

\* RandomForestClassifier.selectFeatures(nFeatures), Math.random at call k.
selectFeatures(maxFeatures, nFeatures, source, k) ==
  SelectFrom(Arr([i \in 1..nFeatures |-> i - 1]), SelectCount(maxFeatures, nFeatures),
             source, k)

\* RandomForestClassifier.bootstrap: the positions drawn, Math.random at call k.
bootstrap(n, source, k) == Arr([i \in 1..n |-> Draw(source, k + i - 1, n) + 1])

\* featureSubset.map(f => row[f])
Project(row, featureSubset) == Arr([i \in DOMAIN featureSubset |-> row[featureSubset[i] + 1]])

\* The calls of Math.random one iteration of the loop of fit makes.
DrawsPerTree(rf, X) == Len(X) + SelectCount(rf.maxFeatures, Len(X[1]))

GrowOn(rf, X, y, featureNames, indices, featureSubset) ==
  giniFit(Arr([i \in DOMAIN indices |-> Project(X[indices[i]], featureSubset)]),
          Pick(y, indices),
          Arr([i \in DOMAIN featureSubset |-> featureNames[featureSubset[i] + 1]]),
          rf.maxDepth, rf.minSamplesSplit)

\* Iteration i (from 0) of the loop of fit: the subset and the tree pushed.
SubsetAt(rf, X, source, i) ==
  selectFeatures(rf.maxFeatures, Len(X[1]), source, i * DrawsPerTree(rf, X) + Len(X))

TreeAt(rf, X, y, featureNames, source, i) ==
  GrowOn(rf, X, y, featureNames, bootstrap(Len(X), source, i * DrawsPerTree(rf, X)),
         SubsetAt(rf, X, source, i))

RFCleared(rf, y, featureNames) ==
  [rf EXCEPT !.featureNames = featureNames, !.classes = UniqueOf(y),
             !.trees = <<>>, !.featureSubsets = <<>>]

\* RandomForestClassifier.fit(X, y, featureNames).
RFFit(rf, X, y, featureNames, source) ==
  IF rf.nTrees = 0 THEN [obj |-> RFCleared(rf, y, featureNames), out |-> Returned("this")]
  ELSE IF Len(X) = 0
       THEN [obj |-> RFCleared(rf, y, featureNames),
             out |-> Threw("TypeError: Cannot read properties of undefined")]
  ELSE [obj |-> [RFCleared(rf, y, featureNames) EXCEPT
                   !.trees = Arr([i \in 1..rf.nTrees |->
                                    TreeAt(rf, X, y, featureNames, source, i - 1)]),
                   !.featureSubsets = Arr([i \in 1..rf.nTrees |->
                                             SubsetAt(rf, X, source, i - 1)])],
        out |-> Returned("this")]

\* What the trees predict for row x, by index of the tree.
TreeVotes(rf, x) ==
  Arr([k \in DOMAIN rf.trees |-> predictOne(rf.trees[k], Project(x, rf.featureSubsets[k]))])

\* The votes object after trees.forEach, the keys `zeroed` set to 0 before.
VotesOf(rf, x, zeroed) == Tally(zeroed, TreeVotes(rf, x))

\* Object.entries(votes).sort((a, b) => b[1] - a[1])[0][0]
Elected(votes) ==
  IF Len(votes) = 0 THEN Threw("TypeError: Cannot read properties of undefined")
  ELSE Returned(TopKey(ObjectEntries(votes)))

RowPredictions(rf, X) ==
  Arr([i \in DOMAIN X |-> Elected(VotesOf(rf, X[i], <<>>))])

PredictionsFrom(rows) ==
  IF \E i \in DOMAIN rows : rows[i].kind = "error"
  THEN rows[CHOOSE i \in DOMAIN rows :
              rows[i].kind = "error" /\ \A j \in 1..(i - 1) : rows[j].kind = "value"]
  ELSE Returned(Arr([i \in DOMAIN rows |-> rows[i].value]))

\* RandomForestClassifier.predict(X).
RFPredict(rf, X) == PredictionsFrom(RowPredictions(rf, X))

\* The shares of the classes that got a vote, the other classes left out.
ProbabilitiesOfVoted(classes, votes, nTrees) ==
  ObjectEntries(Arr([i \in DOMAIN SelectSeq(votes, LAMBDA v : v.count > 0) |->
     [key |-> SelectSeq(votes, LAMBDA v : v.count > 0)[i].key,
      value |-> Q(SelectSeq(votes, LAMBDA v : v.count > 0)[i].count, nTrees)]]))

\* this.classes.forEach(c => probs[c] = votes[c] / this.nTrees), as its entries.
Probabilities(classes, votes, nTrees) ==
  ObjectEntries(Arr([i \in DOMAIN classes |->
     [key |-> classes[i],
      value |-> Q(votes[KeyIndex(votes, classes[i], 1)].count, nTrees)]]))

\* RandomForestClassifier.predictProba(X).
RFPredictProba(rf, X) ==
  Returned(Arr([i \in DOMAIN X |->
     Probabilities(rf.classes,
                   VotesOf(rf, X[i], rf.classes), rf.nTrees)]))

\* RandomForestClassifier.getFeatureImportance().
SubsetsWith(rf, idx) ==
  Cardinality({i \in DOMAIN rf.featureSubsets : idx \in Range(rf.featureSubsets[i])})

UseCounts(rf) == Arr([i \in DOMAIN rf.featureNames |-> SubsetsWith(rf, i - 1)])

SharesOver(rf, counts, total) ==
  SortDescending(Arr([i \in DOMAIN counts |->
                        [feature |-> rf.featureNames[i], importance |-> Q(counts[i], total)]]),
                 Arr([i \in DOMAIN counts |-> Q(counts[i], total)]))

\* Object.values(importance).reduce((a, b) => a + b, 0) || 1
TotalUse(counts) ==
  IF \A i \in DOMAIN counts : counts[i] = 0 THEN 1
  ELSE RSum(Arr([i \in DOMAIN counts |-> R(counts[i])]))[1]

UseShares(rf, counts) == SharesOver(rf, counts, TotalUse(counts))

RFGetFeatureImportance(rf) == UseShares(rf, UseCounts(rf))

(***************************************************************************)
(* priceSensitivity.js: preprocessSurveyData and PriceSensitivityModel.    *)
(* The price cell of a survey row is a cell as parsePrice reads it; the    *)
(* numeric cells are Null or Some(number), the text cells Null or          *)
(* Some(string).                                                           *)
(***************************************************************************)
SurveyColumns(columns) ==
  [ageCol |-> FindCol(columns, {"age"}),
   genderCol |-> FindCol(columns, {"gender"}),
   incomeCol |-> FindCol(columns, {"income"}),
   cupsCol |-> FindCol(columns, {"cups", "how many"}),
   priceCol |-> FindCol(columns, {"pay", "price", "prepared"}),
   tempCol |-> FindCol(columns, {"hot", "cold"}),
   chainCol |-> FindCol(columns, {"chain", "local"}),
   productivityCol |-> FindCol(columns, {"productive"}),
   reusableCol |-> FindCol(columns, {"reusable"}),
   reasonCol |-> FindCol(columns, {"reason"}),
   studentCol |-> FindCol(columns, {"student"}),
   fulltimeCol |-> FindCol(columns, {"fulltime", "full time"}),
   parttimeCol |-> FindCol(columns, {"parttime", "part time"}),
   selfEmployedCol |-> FindCol(columns, {"self-employed", "self employed"})]

GenderEncoding ==
  ("man" :> 0) @@ ("male" :> 0) @@ ("woman" :> 1) @@ ("female" :> 1) @@ ("other" :> 2)
    @@ ("prefer not to say" :> 2)

TempEncoding == ("hot" :> 0) @@ ("cold" :> 1) @@ ("both" :> 2)

ChainEncoding == ("large chain" :> 0) @@ ("small , local business" :> 1) @@ ("both" :> 2)

ProductivityEncoding == ("no" :> 0) @@ ("maybe" :> 1) @@ ("yes" :> 2)

ReusableEncoding == ("no" :> 0) @@ ("sometimes" :> 1) @@ ("yes" :> 2)

PriceCategoryEncoding == ("budget" :> 0) @@ ("moderate" :> 1) @@ ("premium" :> 2)

\* encodings.x?.[text] ?? dflt, text being Null or Some(string): no table has
\* the key "null" or "undefined".
EncodeText(table, text, dflt) == IF text = Null THEN dflt ELSE Encode(table, text[1], dflt)

\* text.toLowerCase().trim().split('\n')[0] for the strings of the model.
Normalized(text) ==
  CASE text = "Male" -> "male"
    [] text = " Woman" -> "woman"
    [] OTHER -> text

\* col ? String(row[col]).toLowerCase().trim().split('\n')[0] : null
TextFeature(row, col) ==
  IF col = Null THEN Null ELSE Some(Normalized(TextOf(Cell(row, col))))

\* text.split(' ')[0] for the strings of the model.
FirstWord(text) == IF text = Null THEN Null ELSE Some(text[1])

\* The words of the model's strings that reason.includes looks for.
Mentions(text) ==
  CASE text = "taste and energy" -> {"taste", "energy"}
    [] OTHER -> {}

\* reasonCol ? String(row[reasonCol]).toLowerCase() : ''
ReasonOf(row, col) == IF col = Null THEN "" ELSE Normalized(TextOf(Cell(row, col)))

\* col && row[col] == 1
Flagged(row, col) == col # Null /\ Cell(row, col) = Some(R(1))

Bit(flag) == IF flag THEN R(1) ELSE R(0)

\* row[ageCol] ? parseFloat(row[ageCol]) : null
AgeOf(row, col) ==
  IF TruthyNumber(Cell(row, col)) THEN Some(ParseFloat(Cell(row, col))) ELSE Null

\* parseIncome(incomeStr) of a numeric cell.
parseIncome(cell) == IF TruthyNumber(cell) THEN NullIfNaN(ParseFloat(cell)) ELSE Null

\* The object pushed for a row whose price parsed as price.
SurveyItem(row, cols, price) ==
  [rawPrice |-> price[1],
   rawAge |-> AgeOf(row, cols.ageCol),
   rawIncome |-> IF cols.incomeCol = Null THEN Null
                 ELSE parseIncome(Cell(row, cols.incomeCol)),
   rawGender |-> TextFeature(row, cols.genderCol),
   priceCategory |-> categorizePriceWillingness(price)[1],
   priceCategoryEncoded |-> PriceCategoryEncoding[categorizePriceWillingness(price)[1]],
   age |-> NumberOr(AgeOf(row, cols.ageCol), R(30)),
   income |-> NumberOr(IF cols.incomeCol = Null THEN Null
                       ELSE parseIncome(Cell(row, cols.incomeCol)), R(20000)),
   cups |-> IF cols.cupsCol = Null THEN R(2)
            ELSE ROr(ParseFloat(Cell(row, cols.cupsCol)), R(2)),
   genderEncoded |-> R(EncodeText(GenderEncoding, TextFeature(row, cols.genderCol), 2)),
   tempEncoded |-> R(EncodeText(TempEncoding, FirstWord(TextFeature(row, cols.tempCol)), 0)),
   chainEncoded |-> R(EncodeText(ChainEncoding, TextFeature(row, cols.chainCol), 2)),
   productivityEncoded |->
     R(EncodeText(ProductivityEncoding, TextFeature(row, cols.productivityCol), 1)),
   reusableEncoded |-> R(EncodeText(ReusableEncoding, TextFeature(row, cols.reusableCol), 0)),
   isStudent |-> Bit(Flagged(row, cols.studentCol)),
   isFulltime |-> Bit(Flagged(row, cols.fulltimeCol)),
   isParttime |-> Bit(Flagged(row, cols.parttimeCol)),
   isSelfEmployed |-> Bit(Flagged(row, cols.selfEmployedCol)),
   energyFocused |-> Bit(Mentions(ReasonOf(row, cols.reasonCol)) \cap {"energy", "caffeine"} # {}),
   tasteFocused |-> Bit("taste" \in Mentions(ReasonOf(row, cols.reasonCol))),
   lifestyleFocused |-> Bit("lifestyle" \in Mentions(ReasonOf(row, cols.reasonCol)))]

\* The rows data.forEach does not skip: those whose price parses.
PriceParseable(data, cols) ==
  SelectSeq(data, LAMBDA row : parsePrice(Cell(row, cols.priceCol)) # Null)

SurveyItems(rows, cols) ==
  Arr([i \in DOMAIN rows |-> SurveyItem(rows[i], cols, parsePrice(Cell(rows[i], cols.priceCol)))])

\* preprocessSurveyData(data).
preprocessSurveyData(data) ==
  IF SurveyColumns(Columns(data)).priceCol = Null
  THEN Threw("Dataset must have a price/willingness to pay column")
  ELSE Returned(SurveyItems(PriceParseable(data, SurveyColumns(Columns(data))),
                            SurveyColumns(Columns(data))))

\* new PriceSensitivityModel()
PSMNew ==
  [model |-> Null, trained |-> FALSE,
   featureNames |-> <<"age", "income", "cups", "genderEncoded", "tempEncoded",
                      "chainEncoded", "productivityEncoded", "reusableEncoded",
                      "isStudent", "isFulltime", "energyFocused", "tasteFocused">>,
   stats |-> Null,
   categoryLabels |-> <<"Budget (0-3)", "Moderate (3-4.50)", "Premium (4.50+)">>]

\* PriceSensitivityModel.extractFeatures(item)
extractFeatures(item) ==
  <<item.age, item.income, item.cups, item.genderEncoded, item.tempEncoded,
    item.chainEncoded, item.productivityEncoded, item.reusableEncoded, item.isStudent,
    item.isFulltime, item.energyFocused, item.tasteFocused>>

\* The average rawPrice of the items of a category, 0 if there is none.
AveragePrice(processed, cat) ==
  IF \A i \in DOMAIN processed : processed[i].priceCategory # cat THEN R(0)
  ELSE RDiv(RSum(Arr([i \in DOMAIN SelectSeq(processed, LAMBDA p : p.priceCategory = cat) |->
                        SelectSeq(processed, LAMBDA p : p.priceCategory = cat)[i].rawPrice])),
            R(Len(SelectSeq(processed, LAMBDA p : p.priceCategory = cat))))

\* train from line 603 on: the stats are stored and trained is set.
PSMTrained(m, stats) ==
  [obj |-> [m EXCEPT !.stats = Some(stats), !.trained = TRUE], out |-> Returned(stats)]

\* train from line 586 on: the forest is fitted, predictions is predict(X).
PSMTrainScored(m, processed, y, predictions) ==
  IF predictions.kind = "error" THEN [obj |-> m, out |-> predictions]
  ELSE PSMTrained(m,
         [samples |-> Len(processed),
          accuracy |-> Q(Cardinality({i \in DOMAIN y : predictions.value[i] = y[i]}), Len(y)),
          distribution |-> ObjectEntries(ValueCounts(y)),
          avgPrices |-> [budget |-> AveragePrice(processed, "budget"),
                         moderate |-> AveragePrice(processed, "moderate"),
                         premium |-> AveragePrice(processed, "premium")],
          featureImportance |-> RFGetFeatureImportance(m.model[1])])

\* train from line 582 on: this.model is the new forest after its fit.
PSMTrainFitted(m, processed, X, y, fitted) ==
  IF fitted.out.kind = "error" THEN [obj |-> [m EXCEPT !.model = Some(fitted.obj)],
                                     out |-> fitted.out]
  ELSE PSMTrainScored([m EXCEPT !.model = Some(fitted.obj)], processed, y,
                      RFPredict(fitted.obj, X))

PSMTrainOn(m, processed, X, y, source) ==
  PSMTrainFitted(m, processed, X, y,
                 RFFit(RFNew(15, 6, 3, "sqrt"), X, y, m.featureNames, source))

\* train demanding more than 10 valid samples.
PSMTrainAboveTen(m, processed, source) ==
  IF processed.kind = "error" THEN [obj |-> m, out |-> processed]
  ELSE IF Len(processed.value) <= 10
       THEN [obj |-> m, out |-> Threw("Need at least 10 valid samples to train")]
  ELSE PSMTrainOn(m, processed.value,
                  Arr([i \in DOMAIN processed.value |-> extractFeatures(processed.value[i])]),
                  Arr([i \in DOMAIN processed.value |-> processed.value[i].priceCategory]),
                  source)

\* train below line 571: processed is what preprocessSurveyData produced.
PSMTrainProcessed(m, processed, source) ==
  IF processed.kind = "error" THEN [obj |-> m, out |-> processed]
  ELSE IF Len(processed.value) < 10
       THEN [obj |-> m, out |-> Threw("Need at least 10 valid samples to train")]
  ELSE PSMTrainOn(m, processed.value,
                  Arr([i \in DOMAIN processed.value |-> extractFeatures(processed.value[i])]),
                  Arr([i \in DOMAIN processed.value |-> processed.value[i].priceCategory]),
                  source)

\* PriceSensitivityModel.train(data), Math.random reading from source.
PSMTrain(m, data, source) == PSMTrainProcessed(m, preprocessSurveyData(data), source)

\* The feature vector predict builds from customerData.
CustomerFeatures(customerData) ==
  extractFeatures(
    [age |-> NumberOr(customerData.age, R(30)),
     income |-> NumberOr(customerData.income, R(20000)),
     cups |-> NumberOr(customerData.cups, R(2)),
     genderEncoded |-> R(EncodeText(GenderEncoding,
                                    IF customerData.gender = Null THEN Null
                                    ELSE Some(Normalized(customerData.gender[1])), 2)),
     tempEncoded |-> R(EncodeText(TempEncoding,
                                  IF customerData.tempPreference = Null THEN Null
                                  ELSE Some(Normalized(customerData.tempPreference[1])), 0)),
     chainEncoded |-> R(EncodeText(ChainEncoding,
                                   IF customerData.chainPreference = Null THEN Null
                                   ELSE Some(Normalized(customerData.chainPreference[1])), 2)),
     productivityEncoded |->
       R(EncodeText(ProductivityEncoding,
                    IF customerData.productivity = Null THEN Null
                    ELSE Some(Normalized(customerData.productivity[1])), 1)),
     reusableEncoded |-> R(EncodeText(ReusableEncoding,
                                      IF customerData.reusableCup = Null THEN Null
                                      ELSE Some(Normalized(customerData.reusableCup[1])), 0)),
     isStudent |-> Bit(customerData.isStudent),
     isFulltime |-> Bit(customerData.isFulltime),
     energyFocused |-> Bit(customerData.energyFocused),
     tasteFocused |-> Bit(customerData.tasteFocused)])

PSMPredicted(m, prediction, probabilities) ==
  IF prediction.kind = "error" THEN prediction
  ELSE Returned([category |-> prediction.value[1],
                 categoryLabel |->
                   m.categoryLabels[PriceCategoryEncoding[prediction.value[1]] + 1],
                 probabilities |-> probabilities.value[1],
                 suggestedPrice |-> m.stats[1].avgPrices[prediction.value[1]]])

\* PriceSensitivityModel.predict(customerData).
PSMPredict(m, customerData) ==
  IF ~m.trained THEN Threw("Model not trained")
  ELSE PSMPredicted(m, RFPredict(m.model[1], <<CustomerFeatures(customerData)>>),
                    RFPredictProba(m.model[1], <<CustomerFeatures(customerData)>>))

\* PriceSensitivityModel.getStats().
PSMGetStats(m) == m.stats

(***************************************************************************)
(* src/store/useDataStore.js: the store of datasets and charts.  A state   *)
(* of the store is a record of its fields; an action of the store is an    *)
(* operator from a state (and the reading of Date.now()) to the next state *)
(* and the value returned.                                                 *)
(***************************************************************************)
\* `ds_${Date.now()}` and `chart_${Date.now()}`.
DataSetId(time) == <<"ds_", time>>

ChartId(time) == <<"chart_", time>>

\* The initial state of create().
StoreNew ==
  [dataSets |-> <<>>, activeDataSetId |-> Null, charts |-> <<>>,
   isLoading |-> FALSE, error |-> Null]

\* { ...dataSet, id }
WithId(dataSet, id) ==
  [id |-> id, name |-> dataSet.name, columns |-> dataSet.columns, data |-> dataSet.data,
   source |-> dataSet.source]

\* addDataSet(dataSet)
addDataSet(state, dataSet, time) ==
  [state |-> [state EXCEPT !.dataSets = Append(@, WithId(dataSet, DataSetId(time))),
                           !.activeDataSetId = IF @ # Null THEN @ ELSE DataSetId(time)],
   returned |-> DataSetId(time)]

\* removeDataSet without the hand-over of the active dataset.
RemoveDataSetKeepingActive(state, id, newDataSets, newCharts) ==
  [state EXCEPT !.dataSets = newDataSets, !.charts = newCharts]

RemoveDataSetFrom(state, id, newDataSets, newCharts) ==
  [state EXCEPT !.dataSets = newDataSets,
                !.charts = newCharts,
                !.activeDataSetId =
                   IF @ = id
                   THEN (IF newDataSets # <<>> THEN newDataSets[1].id ELSE Null)
                   ELSE @]

\* removeDataSet(id)
removeDataSet(state, id) ==
  LET KeepDataSet(ds) == ds.id # id
      KeepChart(c) == c.dataSetId # id
  IN RemoveDataSetFrom(state, id, SelectSeq(state.dataSets, KeepDataSet),
                       SelectSeq(state.charts, KeepChart))

\* setActiveDataSet(id)
setActiveDataSet(state, id) == [state EXCEPT !.activeDataSetId = id]

\* seq.find((x) => x.id === id) || null
FindById(seq, id) ==
  IF \E i \in DOMAIN seq : seq[i].id = id
  THEN Some(seq[CHOOSE i \in DOMAIN seq :
                  seq[i].id = id /\ \A j \in 1..(i - 1) : seq[j].id # id])
  ELSE Null

\* getActiveDataSet()
getActiveDataSet(state) == FindById(state.dataSets, state.activeDataSetId)

\* { ...chart, id }
ChartWithId(chart, id) ==
  [id |-> id, type |-> chart.type, config |-> chart.config, dataSetId |-> chart.dataSetId]

\* addChart(chart)
addChart(state, chart, time) ==
  [state |-> [state EXCEPT !.charts = Append(@, ChartWithId(chart, ChartId(time)))],
   returned |-> ChartId(time)]

\* { ...c, ...updates } with updates of the type and the config.
Updated(c, updates) == [c EXCEPT !.type = updates.type, !.config = updates.config]

\* updateChart(id, updates)
updateChart(state, id, updates) ==
  [state EXCEPT !.charts =
     [i \in DOMAIN @ |-> IF @[i].id = id THEN Updated(@[i], updates) ELSE @[i]]]

\* removeChart(id)
removeChart(state, id) ==
  LET KeepChart(c) == c.id # id
  IN [state EXCEPT !.charts = SelectSeq(@, KeepChart)]

\* duplicateChart(id)
duplicateChart(state, id, time) ==
  LET chart == FindById(state.charts, id)
  IN IF chart # Null
     THEN [state |-> [state EXCEPT !.charts = Append(@, ChartWithId(chart[1], ChartId(time)))],
           returned |-> ChartId(time)]
     ELSE [state |-> state, returned |-> Null]

\* setError(error)
setError(state, error) == [state EXCEPT !.error = Some(error)]

\* reset()
reset(state) ==
  [state EXCEPT !.dataSets = <<>>, !.activeDataSetId = Null, !.charts = <<>>,
                !.isLoading = FALSE, !.error = Null]

(***************************************************************************)
(* src/components/FileUpload/FileUpload.jsx: processFile.  A text is the   *)
(* sequence of its characters.  A run of processFile is a record of the    *)
(* file, of where the run stands (awaiting the parser, or finished) and of *)
(* how many times it has called addDataSet and setError.                   *)
(***************************************************************************)
UpperCase ==
  <<"A", "B", "C", "D", "E", "F", "G", "H", "I", "J", "K", "L", "M",
    "N", "O", "P", "Q", "R", "S", "T", "U", "V", "W", "X", "Y", "Z">>

LowerCase ==
  <<"a", "b", "c", "d", "e", "f", "g", "h", "i", "j", "k", "l", "m",
    "n", "o", "p", "q", "r", "s", "t", "u", "v", "w", "x", "y", "z">>

\* text.toLowerCase()
toLowerCase(text) ==
  [i \in DOMAIN text |->
     IF \E k \in DOMAIN UpperCase : UpperCase[k] = text[i]
     THEN LowerCase[CHOOSE k \in DOMAIN UpperCase : UpperCase[k] = text[i]]
     ELSE text[i]]

\* text.split('.').pop()
LastPart(text) ==
  LET dots == {i \in DOMAIN text : text[i] = "."}
      last == IF dots = {} THEN 0 ELSE CHOOSE i \in dots : \A j \in dots : j <= i
  IN SubSeq(text, last + 1, Len(text))

\* file.name.split('.').pop().toLowerCase()
Extension(file) == toLowerCase(LastPart(file.name))

SupportedExtensions == { <<"c", "s", "v">>, <<"x", "l", "s", "x">>, <<"x", "l", "s">> }

RunOf(file, pc, added, errors) == [file |-> file, pc |-> pc, added |-> added, errors |-> errors]

\* The local state of the component: [isProcessing, processingFile].
UploadNew == [isProcessing |-> FALSE, processingFile |-> <<>>]

\* processFile(file) up to its await: app is [store, upload, uploads].
ProcessFileStart(app, file) ==
  IF Extension(file) \notin SupportedExtensions
  THEN [app EXCEPT
          !.store = setError(@, "Unsupported file type. Please upload CSV or Excel files."),
          !.uploads = Append(@, RunOf(file, "finished", 0, 1))]
  ELSE [app EXCEPT
          !.upload = [isProcessing |-> TRUE, processingFile |-> file.name],
          !.uploads = Append(@, RunOf(file, "awaiting", 0, 0))]

\* files.forEach(processFile)
RECURSIVE ProcessFiles(_,_,_)
ProcessFiles(app, files, i) ==
  IF i > Len(files) THEN app
  ELSE ProcessFiles(ProcessFileStart(app, files[i]), files, i + 1)

\* The try block of processFile after the await: what it does to the store.
ProcessFileTry(state, file, time) ==
  IF file.result.kind = "error"
  THEN [state |-> setError(state, file.result.error), added |-> 0, errors |-> 1]
  ELSE IF Len(file.result.value.data) = 0
  THEN [state |-> setError(state, "The file appears to be empty"), added |-> 0, errors |-> 1]
  ELSE [state |-> addDataSet(state,
                             [name |-> file.name, columns |-> file.result.value.columns,
                              data |-> file.result.value.data, source |-> "file"],
                             time).state,
        added |-> 1, errors |-> 0]

\* processFile(file) from its await on, the finally block included.
ProcessFileResume(app, i, time) ==
  LET tried == ProcessFileTry(app.store, app.uploads[i].file, time)
  IN [app EXCEPT
        !.store = tried.state,
        !.upload = [isProcessing |-> FALSE, processingFile |-> <<>>],
        !.uploads[i] = RunOf(@.file, "finished", @.added + tried.added, @.errors + tried.errors)]

(***************************************************************************)
(* part_004: MergePanel.handleMerge.  A cell is a record of its type and   *)
(* of the text String() makes of it; a row is a function from the names of *)
(* its columns to cells.                                                   *)
(***************************************************************************)
Number(n) == [type |-> "number", text |-> ToString(n)]

Text(chars) == [type |-> "string", text |-> chars]

NullCell == [type |-> "null", text |-> "null"]

Undefined == [type |-> "undefined", text |-> "undefined"]

\* String(cell)
String(cell) == cell.text

\* row[col]
CellAt(row, col) == IF col \in DOMAIN row THEN row[col] ELSE Undefined

\* cell ?? null
OrNull(cell) == IF cell.type \in {"null", "undefined"} THEN NullCell ELSE cell

\* row[key] = cell
SetCell(row, key, cell) ==
  [k \in DOMAIN row \cup {key} |-> IF k = key THEN cell ELSE row[k]]

\* text.slice(0, n)
Slice(text, n) == SubSeq(text, 1, IF Len(text) < n THEN Len(text) ELSE n)

\* `${name.slice(0, 10)}_${col}`
Prefixed(name, col) == Slice(name, 10) \o <<"_">> \o col

\* [...new Set(seq)]
RECURSIVE Distinct(_,_,_)
Distinct(seq, i, out) ==
  IF i > Len(seq) THEN out
  ELSE Distinct(seq, i + 1,
                IF \E j \in DOMAIN out : out[j] = seq[i] THEN out ELSE Append(out, seq[i]))

\* The row of the union: every column of allColumns, null where the row has none.
UnionRow(row, allColumns) ==
  [col \in {allColumns[i] : i \in DOMAIN allColumns} |-> OrNull(CellAt(row, col))]

UnionRows(data, allColumns) == [i \in DOMAIN data |-> UnionRow(data[i], allColumns)]

\* The columns of the join.
JoinColumns(ds1, ds2, joinColumn) ==
  LET ds1Cols == [i \in DOMAIN ds1.columns |->
                    IF ds1.columns[i] = joinColumn THEN ds1.columns[i]
                    ELSE Prefixed(ds1.name, ds1.columns[i])]
      NotJoin(col) == col # joinColumn
      others == SelectSeq(ds2.columns, NotJoin)
      ds2Cols == [i \in DOMAIN others |-> Prefixed(ds2.name, others[i])]
  IN Distinct(<<joinColumn>> \o SelectSeq(ds1Cols, NotJoin) \o ds2Cols, 1, <<>>)

\* ds2Lookup.get(key): the rows of the second dataset under the key, in order.
LookedUp(ds2, joinColumn, key) ==
  LET HasKey(row) == String(CellAt(row, joinColumn)) = key
  IN SelectSeq(ds2.data, HasKey)

\* The forEach over the columns of the first dataset.
RECURSIVE AddFirst(_,_,_,_,_)
AddFirst(newRow, ds1, joinColumn, row1, i) ==
  IF i > Len(ds1.columns) THEN newRow
  ELSE AddFirst(IF ds1.columns[i] # joinColumn
                THEN SetCell(newRow, Prefixed(ds1.name, ds1.columns[i]), CellAt(row1, ds1.columns[i]))
                ELSE newRow,
                ds1, joinColumn, row1, i + 1)

\* The forEach over the columns of the second dataset: row2 is a row, or
\* Null where the left join found none.
SecondCell(mergeType, row2, col) ==
  IF mergeType = "inner" THEN CellAt(row2[1], col)
  ELSE IF row2 = Null THEN NullCell
  ELSE OrNull(CellAt(row2[1], col))

RECURSIVE AddSecond(_,_,_,_,_,_)
AddSecond(newRow, ds2, joinColumn, mergeType, row2, i) ==
  IF i > Len(ds2.columns) THEN newRow
  ELSE AddSecond(IF ds2.columns[i] # joinColumn
                 THEN SetCell(newRow, Prefixed(ds2.name, ds2.columns[i]),
                              SecondCell(mergeType, row2, ds2.columns[i]))
                 ELSE newRow,
                 ds2, joinColumn, mergeType, row2, i + 1)

\* The row pushed for row1 and row2.
JoinedRow(ds1, ds2, joinColumn, mergeType, row1, row2) ==
  AddSecond(AddFirst(SetCell(<<>>, joinColumn, CellAt(row1, joinColumn)), ds1, joinColumn, row1, 1),
            ds2, joinColumn, mergeType, row2, 1)

\* matchingRows of row1: ds2Lookup.get(key) || [] in the inner join,
\* ds2Lookup.get(key) || [null] in the left join.
MatchingRows(ds2, joinColumn, mergeType, row1) ==
  LET found == LookedUp(ds2, joinColumn, String(CellAt(row1, joinColumn)))
  IN IF found = <<>> /\ mergeType = "left" THEN <<Null>>
     ELSE [k \in DOMAIN found |-> Some(found[k])]

RowsOf(ds1, ds2, joinColumn, mergeType, row1, matchingRows) ==
  [k \in DOMAIN matchingRows |->
     JoinedRow(ds1, ds2, joinColumn, mergeType, row1, matchingRows[k])]

RECURSIVE JoinRows(_,_,_,_,_,_)
JoinRows(ds1, ds2, joinColumn, mergeType, i, mergedData) ==
  IF i > Len(ds1.data) THEN mergedData
  ELSE JoinRows(ds1, ds2, joinColumn, mergeType, i + 1,
                mergedData \o RowsOf(ds1, ds2, joinColumn, mergeType, ds1.data[i],
                                     MatchingRows(ds2, joinColumn, mergeType, ds1.data[i])))

\* The try block of handleMerge up to addDataSet: the merged columns and rows.
Merge(ds1, ds2, mergeType, joinColumn) ==
  IF mergeType = "union"
  THEN Returned([columns |-> Distinct(ds1.columns \o ds2.columns, 1, <<>>),
                 data |-> UnionRows(ds1.data, Distinct(ds1.columns \o ds2.columns, 1, <<>>))
                          \o UnionRows(ds2.data, Distinct(ds1.columns \o ds2.columns, 1, <<>>))])
  ELSE IF joinColumn = <<>> THEN Threw("Please select a column to join on")
  ELSE Returned([columns |-> JoinColumns(ds1, ds2, joinColumn),
                 data |-> JoinRows(ds1, ds2, joinColumn, mergeType, 1, <<>>)])

\* `Merged_${name1.slice(0, 15)}_${name2.slice(0, 15)}`
MergedName(ds1, ds2) ==
  <<"M", "e", "r", "g", "e", "d", "_">> \o Slice(ds1.name, 15) \o <<"_">> \o Slice(ds2.name, 15)

\* handleMerge() with the chosen datasets, merge type and join column.
handleMerge(state, dataset1, dataset2, mergeType, joinColumn, time) ==
  LET selectedDataset1 == FindById(state.dataSets, dataset1)
      selectedDataset2 == FindById(state.dataSets, dataset2)
  IN IF selectedDataset1 = Null \/ selectedDataset2 = Null
     THEN [state |-> state, out |-> Returned(Null)]
     ELSE LET made == Merge(selectedDataset1[1], selectedDataset2[1], mergeType, joinColumn)
          IN IF made.kind = "error" THEN [state |-> state, out |-> made]
             ELSE [state |-> addDataSet(state,
                                        [name |-> MergedName(selectedDataset1[1], selectedDataset2[1]),
                                         columns |-> made.value.columns,
                                         data |-> made.value.data, source |-> "merged"],
                                        time).state,
                   out |-> Returned(Some(made.value))]

(***************************************************************************)
(* State.  The model objects share nothing, so a behaviour exercises one   *)
(* of them, named by subject; the others stay as constructed.              *)
(***************************************************************************)
VARIABLES
  subject,    \* which model object this behaviour exercises
  lrm,        \* a LinearRegressionModel instance
  lrOut,      \* the last call on lrm: its name, argument and what it produced
  lrHist,     \* <<table>> of the last train call on lrm that returned, else <<>>
  holt,       \* a HoltForecaster instance
  holtOut,    \* the last call on holt
  holtHist,   \* <<values>> of the last fit call on holt that returned, else <<>>
  dfm,        \* a DemandForecaster instance
  dfOut,      \* the last call on dfm
  dfHist,     \* <<table>> of the last train call on dfm that returned, else <<>>
  tfm,        \* a TradeForecaster instance
  tfOut,      \* the last call on tfm
  tfHist,     \* <<table>> of the last train call on tfm that returned, else <<>>
  dtc,        \* a DecisionTreeClassifier instance (ID3)
  dtcOut,     \* the last call on dtc
  dtcHist,    \* <<table>> of the last train call on dtc that returned, else <<>>
  dtcGrown,   \* <<table>> of the train call that assigned dtc.tree, else <<>>
  tierOut,    \* the last price bucketed: its cell, parsed price and tier
  tierPrev,   \* the price bucketed before that
  rf,         \* a RandomForestClassifier instance
  rfOut,      \* the last call on rf
  rfHist,     \* <<table>> of the last fit call on rf if it returned, else <<>>
  psm,        \* a PriceSensitivityModel instance
  psmOut,     \* the last call on psm
  psmHist,    \* <<table>> of the last train call on psm that returned, else <<>>
  h64,        \* a HoltForecaster instance computing in binary64
  h64Out,     \* the last call on h64
  h64Hist,    \* <<values>> of the last fit call on h64 that returned, else <<>>
  id3Tree,    \* <<tree>> of the last buildTree call, else <<>>
  id3Out,     \* the last call of buildTree, predict or predictTopN on id3Tree
  grown,      \* the last call of buildTree of part_006 on a table of rows
  store,      \* the state of the store of useDataStore.js
  storeOut,   \* the last call of an action of the store
  now,        \* the reading of Date.now()
  upload,     \* the local state of the FileUpload component
  uploads,    \* the runs of processFile of FileUpload.jsx
  merged,     \* the last call of handleMerge of MergePanel
  raised      \* TRUE once a train/fit call on the subject has thrown

vars == <<subject, lrm, lrOut, lrHist, holt, holtOut, holtHist, dfm, dfOut, dfHist, tfm, tfOut, tfHist,
          dtc, dtcOut, dtcHist, dtcGrown, tierOut, tierPrev, rf, rfOut, rfHist,
          psm, psmOut, psmHist, h64, h64Out, h64Hist, id3Tree, id3Out, 
          grown, 
          store, storeOut, now, 
          upload, uploads, 
          merged, raised>>

\* A row of the tables handed to the ID3 classifier and to buildTree.
TreeRow(f1, f2, t) == [F1 |-> f1, F2 |-> f2, T |-> t]

\* The rows buildTree of part_006 is called on directly.
GrowRows ==
  << TreeRow("a", "p", "x"), TreeRow("a", "q", "y"), TreeRow("b", "p", "y"),
     TreeRow("b", "q", "x"), TreeRow("a", "p", "y"), TreeRow("constructor", "q", "x"),
     TreeRow("b", "q", "toString") >>

\* Tables of up to MaxGrowRows rows of GrowRows, each row at most once.
GrowTables ==
  { Arr([i \in DOMAIN ix |-> GrowRows[ix[i]]]) :
      ix \in { t \in SeqsOf(DOMAIN GrowRows, 0, MaxGrowRows) :
                 \A i \in 1..(Len(t) - 1) : t[i] < t[i + 1] } }

GrowFeatures == { <<>>, <<"F1">>, <<"F2">>, <<"F1", "F2">>, <<"F2", "F1">> }

\* The calls of buildTree a behaviour may make: one, with these arguments.
GrowCalls ==
  { [data |-> data, features |-> features, maxDepth |-> maxDepth] :
      data \in GrowTables, features \in GrowFeatures, maxDepth \in 0..MaxDepth }

\* grown before the call: the arguments it will be made with.
GrowAsked(asked) == [NoCallYet EXCEPT !.arg = asked]

\* The texts of the datasets MergePanel is opened on.
NorthSalesQ1 == <<"n", "o", "r", "t", "h", "_", "s", "a", "l", "e", "s", "_", "q", "1">>

NorthSalesQ2 == <<"n", "o", "r", "t", "h", "_", "s", "a", "l", "e", "s", "_", "q", "2">>

Stores == <<"s", "t", "o", "r", "e", "s">>

West == <<"w", "e", "s", "t">>

IdCol == <<"i", "d">>

AmtCol == <<"a", "m", "t">>

CityCol == <<"c", "i", "t", "y">>

SalesRow(id, amt) == (IdCol :> id) @@ (AmtCol :> amt)

StoreRow(id, city) == (IdCol :> id) @@ (CityCol :> city)

\* Datasets with keys that match none, one or two rows of another, with
\* names that agree in their first ten characters, and one without rows.
MergeDataSets ==
  << [name |-> NorthSalesQ1, columns |-> <<IdCol, AmtCol>>,
      data |-> <<SalesRow(Number(1), Number(10)), SalesRow(Number(2), Number(20))>>,
      source |-> "file"],
     [name |-> NorthSalesQ2, columns |-> <<IdCol, AmtCol>>,
      data |-> <<SalesRow(Number(2), Number(30)), SalesRow(Number(2), Number(40)),
                 SalesRow(Number(3), Number(50))>>,
      source |-> "file"],
     [name |-> Stores, columns |-> <<IdCol, CityCol>>,
      data |-> <<StoreRow(Number(1), Text("Cork")), StoreRow(Number(3), Text("Sligo")),
                 StoreRow(NullCell, Text("Derry"))>>,
      source |-> "file"],
     [name |-> West, columns |-> <<CityCol, IdCol, AmtCol>>,
      data |-> <<StoreRow(Number(2), Text("Cork")) @@ (AmtCol :> Number(5))>>,
      source |-> "file"],
     [name |-> <<"o", "l", "d">>, columns |-> <<IdCol, AmtCol>>, data |-> <<>>,
      source |-> "merged"] >>

\* The store with two of the datasets loaded one after the other.
MergeStores ==
  { addDataSet(addDataSet(StoreNew, MergeDataSets[i], 0).state, MergeDataSets[j], 1).state :
      i, j \in DOMAIN MergeDataSets }

Subjects ==
  {"lr", "holt", "df", "tf", "dtc", "price", "rf", "psm", "id3", "holt64", "grow", "grove",
   "store", "upload", "merge"}

\* Constructor arguments of RandomForestClassifier: two small forests.
RFParams == { <<2, 2, 2, "sqrt">>, <<3, 2, 2, "sqrt">> }

\* Constructor arguments of HoltForecaster: the defaults and two others.
HoltParams == { <<Q(3, 10), Q(1, 10)>>, <<Q(1, 2), Q(1, 2)>>, <<R(1), R(0)>> }

Init ==
  /\ subject \in Subjects
  /\ lrm = LRNew
  /\ lrOut = NoCallYet
  /\ lrHist = <<>>
  /\ holt \in IF subject = "holt" THEN {HoltNew(p[1], p[2]) : p \in HoltParams}
              ELSE {HoltNew(Q(3, 10), Q(1, 10))}
  /\ holtOut = NoCallYet
  /\ holtHist = <<>>
  /\ dfm = DFNew
  /\ dfOut = NoCallYet
  /\ dfHist = <<>>
  /\ tfm = TFNew
  /\ tfOut = NoCallYet
  /\ tfHist = <<>>
  /\ dtc = TreeNew(5)
  /\ dtcOut = NoCallYet
  /\ dtcHist = <<>>
  /\ dtcGrown = <<>>
  /\ tierOut = Null
  /\ tierPrev = Null
  /\ rf \in IF subject = "rf" THEN {RFNew(p[1], p[2], p[3], p[4]) : p \in RFParams}
            ELSE IF subject = "grove" THEN {RFNew(2, m, 2, "sqrt") : m \in 0..MaxDepth}
            ELSE {RFNew(10, 5, 5, "sqrt")}
  /\ rfOut = NoCallYet
  /\ rfHist = <<>>
  /\ psm = PSMNew
  /\ psmOut = NoCallYet
  /\ psmHist = <<>>
  /\ h64 \in IF subject = "holt64" THEN {Holt64New(p[1], p[2]) : p \in HoltParams}
             ELSE {Holt64New(Q(3, 10), Q(1, 10))}
  /\ h64Out = NoCallYet
  /\ h64Hist = <<>>
  /\ id3Tree = Null
  /\ id3Out = NoCallYet
  /\ grown \in IF subject = "grow" THEN {GrowAsked(asked) : asked \in GrowCalls} ELSE {NoCallYet}
  /\ store \in IF subject = "merge" THEN MergeStores ELSE {StoreNew}
  /\ storeOut = NoCallYet
  /\ now = IF subject = "merge" THEN 1 ELSE 0
  /\ upload = UploadNew
  /\ uploads = <<>>
  /\ merged = NoCallYet
  /\ raised = FALSE

lrVars == <<lrm, lrOut, lrHist>>
holtVars == <<holt, holtOut, holtHist>>
dfVars == <<dfm, dfOut, dfHist>>

tfVars == <<tfm, tfOut, tfHist>>

\* What a call on one object leaves alone: all the other objects.
dtcVars == <<dtc, dtcOut, dtcHist, dtcGrown>>
tierVars == <<tierOut, tierPrev>>
rfVars == <<rf, rfOut, rfHist>>
psmVars == <<psm, psmOut, psmHist>>
id3Vars == <<id3Tree, id3Out>>
h64Vars == <<h64, h64Out, h64Hist>>

growVars == <<grown>>

storeVars == <<store, storeOut, now>>

uploadVars == <<upload, uploads>>

mergeVars == <<merged>>

\* What a call on one object leaves alone: all the other objects.
exceptLR == <<holtVars, dfVars, tfVars, dtcVars, tierVars, rfVars, psmVars, id3Vars, h64Vars, growVars, storeVars, uploadVars, mergeVars>>
exceptHolt == <<lrVars, dfVars, tfVars, dtcVars, tierVars, rfVars, psmVars, id3Vars, h64Vars, growVars, storeVars, uploadVars, mergeVars>>
exceptDF == <<lrVars, holtVars, tfVars, dtcVars, tierVars, rfVars, psmVars, id3Vars, h64Vars, growVars, storeVars, uploadVars, mergeVars>>
exceptTF == <<lrVars, holtVars, dfVars, dtcVars, tierVars, rfVars, psmVars, id3Vars, h64Vars, growVars, storeVars, uploadVars, mergeVars>>
exceptDTC == <<lrVars, holtVars, dfVars, tfVars, tierVars, rfVars, psmVars, id3Vars, h64Vars, growVars, storeVars, uploadVars, mergeVars>>
exceptTier == <<lrVars, holtVars, dfVars, tfVars, dtcVars, rfVars, psmVars, id3Vars, h64Vars, growVars, storeVars, uploadVars, mergeVars>>
exceptRF == <<lrVars, holtVars, dfVars, tfVars, dtcVars, tierVars, psmVars, id3Vars, h64Vars, growVars, storeVars, uploadVars, mergeVars>>
exceptPSM == <<lrVars, holtVars, dfVars, tfVars, dtcVars, tierVars, rfVars, id3Vars, h64Vars, growVars, storeVars, uploadVars, mergeVars>>
exceptID3 == <<lrVars, holtVars, dfVars, tfVars, dtcVars, tierVars, rfVars, psmVars, h64Vars, growVars, storeVars, uploadVars, mergeVars>>
exceptH64 == <<lrVars, holtVars, dfVars, tfVars, dtcVars, tierVars, rfVars, psmVars, id3Vars, growVars, storeVars, uploadVars, mergeVars>>
exceptGrow == <<lrVars, holtVars, dfVars, tfVars, dtcVars, tierVars, rfVars, psmVars, id3Vars, h64Vars, storeVars, uploadVars, mergeVars>>
exceptStore == <<lrVars, holtVars, dfVars, tfVars, dtcVars, tierVars, rfVars, psmVars, id3Vars, h64Vars, growVars, uploadVars, mergeVars>>
exceptUpload == <<lrVars, holtVars, dfVars, tfVars, dtcVars, tierVars, rfVars, psmVars, id3Vars, h64Vars, growVars, mergeVars>>
exceptMerge == <<lrVars, holtVars, dfVars, tfVars, dtcVars, tierVars, rfVars, psmVars, id3Vars, h64Vars, growVars, uploadVars>>

(***************************************************************************)
(* Inputs of the LinearRegressionModel calls.                              *)
(***************************************************************************)
RegRow(rain, day, sales) ==
  [Rain |-> R(rain), MinTemp |-> R(10), MaxTemp |-> R(20), Day |-> day,
   TimeSlot |-> "Morning", Season |-> "Summer", Sales |-> R(sales)]

LRRows ==
  << RegRow(0, "Monday", 3), RegRow(2, "Tuesday", 3), RegRow(2, "Tuesday", 0) >>

\* Tables of up to MaxRows rows.  train only sums over the rows of its table,
\* so one order of each multiset of rows is enough.
LRTables ==
  { Arr([i \in DOMAIN ix |-> LRRows[ix[i]]]) :
      ix \in { s \in SeqsOf(DOMAIN LRRows, 0, MaxRows) :
                 \A i \in 1..(Len(s) - 1) : s[i] <= s[i + 1] } }

Features(rain, day) ==
  [Rain |-> R(rain), MinTemp |-> R(10), MaxTemp |-> R(20), Day |-> day,
   TimeSlot |-> "Morning", Season |-> "Summer"]

LRQueries == { Features(rain, day) : rain \in {0, 4}, day \in {"Monday", "Tuesday", "Sunday"} }

(***************************************************************************)
(* Actions on the LinearRegressionModel instance.                          *)
(***************************************************************************)
LRTrainCall ==
  \E data \in LRTables :
    \E res \in {LRTrain(lrm, data)} :
       /\ lrm' = res.obj
       /\ lrOut' = Call("train", data, res.out)
       /\ lrHist' = IF res.out.kind = "value" THEN <<data>> ELSE lrHist
       /\ raised' = (raised \/ res.out.kind = "error")
       /\ UNCHANGED <<subject, exceptLR>>

LRPredictCall ==
  \E features \in LRQueries :
    /\ lrOut' = Call("predict", features, LRPredict(lrm, features))
    /\ UNCHANGED <<subject, raised, lrm, lrHist, exceptLR>>

LRGetStatsCall ==
  /\ lrOut' = Call("getStats", <<>>, Returned(LRGetStats(lrm)))
  /\ UNCHANGED <<subject, raised, lrm, lrHist, exceptLR>>

NextLR == LRTrainCall \/ LRPredictCall \/ LRGetStatsCall

(***************************************************************************)
(* Actions on the HoltForecaster instance.                                 *)
(***************************************************************************)
\* All series of up to MaxSeries values, and one longer rising series.
HoltSeries ==
  SeqsOf({R(0), R(1), R(2)}, 0, MaxSeries) \cup {<<R(100), R(105), R(110), R(115)>>}

HoltSteps == 0..MaxSteps

HoltFitCall ==
  \E values \in HoltSeries :
    \E res \in {HoltFit(holt, values)} :
       /\ holt' = res.obj
       /\ holtOut' = Call("fit", values, res.out)
       /\ holtHist' = IF res.out.kind = "value" THEN <<values>> ELSE holtHist
       /\ raised' = (raised \/ res.out.kind = "error")
       /\ UNCHANGED <<subject, exceptHolt>>

HoltForecastCall ==
  \E steps \in HoltSteps :
    /\ holtOut' = Call("forecast", steps, HoltForecast(holt, steps))
    /\ UNCHANGED <<subject, raised, holt, holtHist, exceptHolt>>

HoltIntervalsCall ==
  \E steps \in HoltSteps, confidence \in {Q(95, 100), Q(9, 10), Q(1, 2)} :
    /\ holtOut' = Call("getConfidenceIntervals", <<steps, confidence>>,
                       HoltConfidenceIntervals(holt, steps, confidence))
    /\ UNCHANGED <<subject, raised, holt, holtHist, exceptHolt>>

HoltGetStatsCall ==
  /\ holtOut' = Call("getStats", <<>>, Returned(HoltGetStats(holt)))
  /\ UNCHANGED <<subject, raised, holt, holtHist, exceptHolt>>

NextHolt == HoltFitCall \/ HoltForecastCall \/ HoltIntervalsCall \/ HoltGetStatsCall

(***************************************************************************)
(* Actions on the DemandForecaster instance.                               *)
(***************************************************************************)
SaleRow(day, rain, item) == [Day |-> Some(day), Rain |-> Some(R(rain)), Item |-> Some(item)]

DFRows ==
  << SaleRow("Monday", 2, "Latte"), SaleRow("Tuesday", 2, "Latte"),
     SaleRow("Wednesday", 2, "Latte"), SaleRow("Monday", 2, "Mocha") >>

\* Monday with 2.4 mm of rain: a second row of the condition of DFRows[1].
DrizzleRow == [Day |-> Some("Monday"), Rain |-> Some(Q(12, 5)), Item |-> Some("Latte")]

\* Transaction tables of up to MaxRows rows of DFRows, each row at most once,
\* the table of all of DFRows, and one with two rows of one condition.
DFTables ==
  { Arr([i \in DOMAIN ix |-> DFRows[ix[i]]]) :
      ix \in { t \in SeqsOf(DOMAIN DFRows, 0, MaxRows) :
                 \A i \in 1..(Len(t) - 1) : t[i] < t[i + 1] } }
    \cup { DFRows, <<DFRows[1], DrizzleRow, DFRows[2]>> }

DFQueries == { Features(4, "Sunday") }

DFItems == {"Latte", "Mocha"}

DFTrainCall ==
  \E data \in DFTables :
    \E res \in {DFTrain(dfm, data)} :
       /\ dfm' = res.obj
       /\ dfOut' = Call("train", data, res.out)
       /\ dfHist' = IF res.out.kind = "value" THEN <<data>> ELSE dfHist
       /\ raised' = (raised \/ res.out.kind = "error")
       /\ UNCHANGED <<subject, exceptDF>>

DFPredictTotalCall ==
  \E features \in DFQueries :
    /\ dfOut' = Call("predictTotal", features, DFPredictTotal(dfm, features))
    /\ UNCHANGED <<subject, raised, dfm, dfHist, exceptDF>>

DFPredictItemCall ==
  \E features \in DFQueries, item \in DFItems :
    /\ dfOut' = Call("predictItem", <<features, item>>, DFPredictItem(dfm, features, item))
    /\ UNCHANGED <<subject, raised, dfm, dfHist, exceptDF>>

DFPredictAllItemsCall ==
  \E features \in DFQueries :
    /\ dfOut' = Call("predictAllItems", features, DFPredictAllItems(dfm, features))
    /\ UNCHANGED <<subject, raised, dfm, dfHist, exceptDF>>

DFGetStatsCall ==
  /\ dfOut' = Call("getStats", <<>>, DFGetStats(dfm))
  /\ UNCHANGED <<subject, raised, dfm, dfHist, exceptDF>>

NextDF ==
  \/ DFTrainCall
  \/ DFPredictTotalCall
  \/ DFPredictItemCall
  \/ DFPredictAllItemsCall
  \/ DFGetStatsCall

(***************************************************************************)
(* Actions on the TradeForecaster instance.                                *)
(***************************************************************************)
TradeRecord(month, value, statistic, country) ==
  [Month |-> Some(month), Value |-> Some(R(value)), Statistic |-> Some(statistic),
   Country |-> Some(country)]

TradeRows ==
  << TradeRecord("2023 December", 3, "Exports", "USA"),
     TradeRecord("2023 February", 2, "Exports", "UK"),
     TradeRecord("2023 January", 1, "Exports", "USA"),
     TradeRecord("2023 January", 2, "Imports", "USA"),
     TradeRecord(" 2023 January", 4, "Exports", "UK"),
     TradeRecord("2023 January", 5, "Re_Exports", "USA"),
     TradeRecord("2023 January_Re", 7, "Exports", "UK") >>

\* The tables of up to MaxRows of the first four rows of TradeRows, each row
\* at most once, and tables in which a month is labelled in two ways or a
\* statistic's name ends with the name of another.
TFTables ==
  { Arr([i \in DOMAIN ix |-> TradeRows[ix[i]]]) :
      ix \in { t \in SeqsOf(1..4, 0, MaxRows) :
                 \A i \in 1..(Len(t) - 1) : t[i] < t[i + 1] } }
  \cup { <<TradeRows[3], TradeRows[5]>>,
         <<TradeRows[3], TradeRows[6]>>,
         <<TradeRows[6], TradeRows[7]>>,
         <<TradeRows[7], TradeRows[6]>> }

TFTypes == {"Exports", "Imports", "Re_Exports"}

\* train is called with the default options.
TFTrainCall ==
  \E data \in TFTables :
    \E res \in {TFTrain(tfm, data, Q(3, 10), Q(1, 10))} :
       /\ tfm' = res.obj
       /\ tfOut' = Call("train", data, res.out)
       /\ tfHist' = IF res.out.kind = "value" THEN <<data>> ELSE tfHist
       /\ raised' = (raised \/ res.out.kind = "error")
       /\ UNCHANGED <<subject, exceptTF>>

TFForecastCall ==
  \E type \in TFTypes, steps \in HoltSteps :
    /\ tfOut' = Call("forecast", <<type, steps>>, TFForecast(tfm, type, steps))
    /\ UNCHANGED <<subject, raised, tfm, tfHist, exceptTF>>

TFGetStatsCall ==
  \E type \in TFTypes :
    /\ tfOut' = Call("getStats", type, TFGetStats(tfm, type))
    /\ UNCHANGED <<subject, raised, tfm, tfHist, exceptTF>>

TFGetTopCountriesCall ==
  \E type \in TFTypes :
    /\ tfOut' = Call("getTopCountries", type, TFGetTopCountries(tfm, type))
    /\ UNCHANGED <<subject, raised, tfm, tfHist, exceptTF>>

NextTF == TFTrainCall \/ TFForecastCall \/ TFGetStatsCall \/ TFGetTopCountriesCall

(***************************************************************************)
(* Actions on the DecisionTreeClassifier instance.                         *)
(***************************************************************************)
TreeRows ==
  << TreeRow("a", "p", "x"), TreeRow("b", "p", "y"),
     TreeRow("constructor", "q", "x"), TreeRow("a", "q", "y") >>

\* Tables of up to MaxTreeRows rows of TreeRows, each row at most once.
TreeTables ==
  { Arr([i \in DOMAIN ix |-> TreeRows[ix[i]]]) :
      ix \in { t \in SeqsOf(DOMAIN TreeRows, 0, MaxTreeRows) :
                 \A i \in 1..(Len(t) - 1) : t[i] < t[i + 1] } }

\* The orders a shuffle of n rows can end in.
Shuffles(n) == { p \in [1..n -> 1..n] : \A i, j \in 1..n : p[i] = p[j] => i = j }

TreeSamples ==
  { [F1 |-> "a", F2 |-> "p"], [F1 |-> "c", F2 |-> "q"], [F1 |-> "constructor", F2 |-> "p"] }

\* A longer table, on which buildTree grows two decision nodes.
LongTreeTable ==
  << TreeRow("a", "p", "x"), TreeRow("a", "q", "y"), TreeRow("b", "p", "y"),
     TreeRow("b", "q", "y") >>

\* The orders the shuffle of train is taken to end in: every order of a short
\* table, the given order and its reverse for the long one.
TreeOrders(data) ==
  IF data = LongTreeTable
  THEN { [i \in DOMAIN data |-> i], [i \in DOMAIN data |-> Len(data) + 1 - i] }
  ELSE Shuffles(Len(data))

TreeTrainCall ==
  \E data \in TreeTables \cup {LongTreeTable} :
    \E order \in TreeOrders(data) :
      \E res \in {TreeTrain(dtc, data, <<"F1", "F2">>, "T", order)} :
         /\ dtc' = res.obj
         /\ dtcOut' = Call("train", data, res.out)
         /\ dtcHist' = IF res.out.kind = "value" THEN <<data>> ELSE dtcHist
         /\ dtcGrown' = IF res.obj.tree # dtc.tree \/ res.out.kind = "value"
                        THEN <<data>> ELSE dtcGrown
         /\ raised' = (raised \/ res.out.kind = "error")
         /\ UNCHANGED <<subject, exceptDTC>>

TreePredictCall ==
  \E sample \in TreeSamples :
    /\ dtcOut' = Call("predict", sample, ClassifierPredict(dtc, sample))
    /\ UNCHANGED <<subject, raised, dtc, dtcHist, dtcGrown, exceptDTC>>

TreePredictTopNCall ==
  \E sample \in TreeSamples, n \in {1, 3} :
    /\ dtcOut' = Call("predictTopN", <<sample, n>>, ClassifierPredictTopN(dtc, sample, n))
    /\ UNCHANGED <<subject, raised, dtc, dtcHist, dtcGrown, exceptDTC>>

NextDTC == TreeTrainCall \/ TreePredictCall \/ TreePredictTopNCall

(***************************************************************************)
(* Actions on the HoltForecaster instance that computes in binary64.       *)
(***************************************************************************)
Holt64Series ==
  { <<>>, <<R(3)>>, <<R(0), R(3)>>, <<R(3), R(0)>>, <<R(3), R(3)>>, <<R(3), R(3), R(3)>>,
    <<R(0), R(3), R(0)>>, <<R(1), R(2), R(3)>>, <<R(1), R(3), R(2)>>,
    <<R(100), R(105), R(110), R(115)>> }

Holt64FitCall ==
  \E values \in Holt64Series :
    \E res \in {Holt64Fit(h64, Doubles(values))} :
       /\ h64' = res.obj
       /\ h64Out' = Call("fit", values, res.out)
       /\ h64Hist' = IF res.out.kind = "value" THEN <<values>> ELSE h64Hist
       /\ raised' = (raised \/ res.out.kind = "error")
       /\ UNCHANGED <<subject, exceptH64>>

Holt64ForecastCall ==
  \E steps \in HoltSteps :
    /\ h64Out' = Call("forecast", steps, Holt64Forecast(h64, steps))
    /\ UNCHANGED <<subject, raised, h64, h64Hist, exceptH64>>

NextHolt64 == Holt64FitCall \/ Holt64ForecastCall

(***************************************************************************)
(* Calls of buildTree, predict and predictTopN of part_006 on tables of    *)
(* rows that no feature tells apart, given as runs of rows of equal label. *)
(***************************************************************************)
RunCopies == {1, 2, 500, 501}

LeafRuns == SeqsOf([label : {"x", "y"}, copies : RunCopies], 0, MaxRuns)

LeafBuildCall ==
  \E runs \in LeafRuns :
    /\ id3Tree' = Some(BuildLeaf(runs))
    /\ id3Out' = Call("buildTree", runs, Returned(BuildLeaf(runs)))
    /\ UNCHANGED <<subject, raised, exceptID3>>

LeafPredictCall ==
  /\ id3Tree # Null
  /\ \E sample \in TreeSamples :
       id3Out' = Call("predict", sample, TreePredict(id3Tree[1], sample))
  /\ UNCHANGED <<subject, raised, id3Tree, exceptID3>>

LeafPredictTopNCall ==
  /\ id3Tree # Null
  /\ \E sample \in TreeSamples, n \in 1..3 :
       id3Out' = Call("predictTopN", <<sample, n>>, TreePredictTopN(id3Tree[1], sample, n))
  /\ UNCHANGED <<subject, raised, id3Tree, exceptID3>>

NextID3 == LeafBuildCall \/ LeafPredictCall \/ LeafPredictTopNCall

(***************************************************************************)
(* Calls of buildTree of part_006 (depth 0) on tables of rows, with the    *)
(* candidate features and the maxDepth given.                              *)
(***************************************************************************)
BuildTreeCall ==
  /\ grown.call = "none"
  /\ grown' = Call("buildTree", grown.arg,
                   buildTree(grown.arg.data, grown.arg.features, "T", 0, grown.arg.maxDepth))
  /\ UNCHANGED <<subject, raised, exceptGrow>>

NextGrow == BuildTreeCall

(***************************************************************************)
(* Bucketing of survey prices: parsePrice, then categorizePriceWillingness, *)
(* as preprocessSurveyData applies them to the price cell of a row.        *)
(***************************************************************************)
PriceText(units, tenths, hundredths) ==
  TextCell(<<Digits[units + 1], ".", Digits[tenths + 1], Digits[hundredths + 1]>>)

PriceCells ==
  { PriceText(0, 0, 0), PriceText(2, 9, 9), PriceText(3, 0, 0), PriceText(3, 0, 1),
    PriceText(4, 4, 9), PriceText(4, 5, 0), PriceText(4, 5, 1), PriceText(9, 9, 9),
    TextCell(<<"$", "3", ".", "5">>), TextCell(<<"4", ".", "5", " ", "E", "U", "R">>),
    TextCell(<<"n", "/", "a">>), TextCell(<<>>), TextCell(<<".", "5">>),
    NumberCell(R(0)), NumberCell(R(3)), NumberCell(Q(19, 4)), Null }

PriceTier(cell, price) ==
  [cell |-> cell, price |-> price, tier |-> categorizePriceWillingness(price)]

PriceTierCall ==
  \E cell \in PriceCells :
    /\ tierOut' = Some(PriceTier(cell, parsePrice(cell)))
    /\ tierPrev' = tierOut
    /\ UNCHANGED <<subject, raised, exceptTier>>

NextPrice == PriceTierCall

(***************************************************************************)
(* Actions on the RandomForestClassifier instance.  A table is a sequence  *)
(* of labelled rows: X is the rows' feature vectors, y their labels.       *)
(***************************************************************************)
RFFeatureNames == <<"f0", "f1", "f2">>

Labelled(x, label) == [x |-> x, label |-> label]

RFRows ==
  << Labelled(<<R(0), R(0), R(1)>>, "2"), Labelled(<<R(1), R(0), R(0)>>, "1"),
     Labelled(<<R(1), R(1), R(0)>>, "premium"), Labelled(<<R(0), R(1), R(1)>>, "1") >>

\* Tables of up to MaxForestRows rows of RFRows, each row at most once.
RFTables ==
  { Arr([i \in DOMAIN ix |-> RFRows[ix[i]]]) :
      ix \in { t \in SeqsOf(DOMAIN RFRows, 0, MaxForestRows) :
                 \A i \in 1..(Len(t) - 1) : t[i] < t[i + 1] } }

FeaturesOf(table) == Arr([i \in DOMAIN table |-> table[i].x])

LabelsOf(table) == Arr([i \in DOMAIN table |-> table[i].label])

\* The sources Math.random reads from during one fit.
RandomSources == { <<0>>, <<0, 0, 0, 0, 4, 4, 4, 4>>, <<5, 2, 7, 0, 3, 6, 1, 4>> }

RFQueries == { <<R(0), R(0), R(1)>>, <<R(1), R(1), R(0)>>, <<R(1), R(0), R(1)>> }

RFFitCall ==
  \E table \in RFTables, source \in RandomSources :
    \E res \in {RFFit(rf, FeaturesOf(table), LabelsOf(table), RFFeatureNames, source)} :
       /\ rf' = res.obj
       /\ rfOut' = Call("fit", table, res.out)
       /\ rfHist' = IF res.out.kind = "value" THEN <<table>> ELSE <<>>
       /\ raised' = (raised \/ res.out.kind = "error")
       /\ UNCHANGED <<subject, exceptRF>>

RFPredictCall ==
  \E x \in RFQueries :
    /\ rfOut' = Call("predict", x, RFPredict(rf, <<x>>))
    /\ UNCHANGED <<subject, raised, rf, rfHist, exceptRF>>

RFPredictProbaCall ==
  \E x \in RFQueries :
    /\ rfOut' = Call("predictProba", x, RFPredictProba(rf, <<x>>))
    /\ UNCHANGED <<subject, raised, rf, rfHist, exceptRF>>

RFGetFeatureImportanceCall ==
  /\ rfOut' = Call("getFeatureImportance", <<>>, Returned(RFGetFeatureImportance(rf)))
  /\ UNCHANGED <<subject, raised, rf, rfHist, exceptRF>>

NextRF == RFFitCall \/ RFPredictCall \/ RFPredictProbaCall \/ RFGetFeatureImportanceCall

(***************************************************************************)
(* Calls of RandomForestClassifier.fit that record the random source read, *)
(* on forests of two trees of every maxDepth up to MaxDepth.               *)
(***************************************************************************)
GroveFitCall ==
  \E table \in RFTables, source \in RandomSources :
    \E res \in {RFFit(rf, FeaturesOf(table), LabelsOf(table), RFFeatureNames, source)} :
       /\ rf' = res.obj
       /\ rfOut' = Call("fit", [table |-> table, source |-> source], res.out)
       /\ rfHist' = IF res.out.kind = "value" THEN <<table>> ELSE <<>>
       /\ raised' = (raised \/ res.out.kind = "error")
       /\ UNCHANGED <<subject, exceptRF>>

NextGrove == GroveFitCall

(***************************************************************************)
(* Actions on the PriceSensitivityModel instance.                          *)
(***************************************************************************)
\* The i-th respondent of the survey; the third gave no price.
SurveyPrice(i) ==
  IF i = 3 THEN TextCell(<<"n", "/", "a">>)
  ELSE IF i % 3 = 1 THEN PriceText(2, 5, 0)
  ELSE IF i % 3 = 2 THEN PriceText(3, 5, 0)
  ELSE PriceText(5, 0, 0)

SurveyRow(i) ==
  [Price |-> SurveyPrice(i), Age |-> Some(R(20 + 10 * (i % 2))),
   Income |-> Some(R(1000 * (i % 3))), Cups |-> Some(R(1 + (i % 2))),
   Gender |-> Some(IF i % 2 = 1 THEN "Male" ELSE " Woman")]

\* The first n respondents, for the three largest n up to MaxSurveyRows; a
\* table without a price column; the empty table.
SurveyTables ==
  { Arr([i \in 1..n |-> SurveyRow(i)]) : n \in (MaxSurveyRows - 2)..MaxSurveyRows }
    \cup { <<[Age |-> Some(R(30)), Gender |-> Some("Male")]>>, <<>> }

Customer(age, gender, isStudent) ==
  [age |-> age, income |-> Null, cups |-> Null, gender |-> gender, tempPreference |-> Null,
   chainPreference |-> Null, productivity |-> Null, reusableCup |-> Null,
   isStudent |-> isStudent, isFulltime |-> FALSE, energyFocused |-> FALSE,
   tasteFocused |-> FALSE]

Customers ==
  { Customer(Null, Null, FALSE), Customer(Some(R(21)), Some("Male"), TRUE),
    Customer(Some(R(32)), Some(" Woman"), FALSE), Customer(Some(R(26)), Some("other"), FALSE),
    Customer(Some(R(20)), Some(" Woman"), TRUE), Customer(Some(R(25)), Null, FALSE) }

PSMTrainCall ==
  \E data \in SurveyTables, source \in RandomSources :
    \E res \in {PSMTrain(psm, data, source)} :
       /\ psm' = res.obj
       /\ psmOut' = Call("train", data, res.out)
       /\ psmHist' = IF res.out.kind = "value" THEN <<data>> ELSE psmHist
       /\ raised' = (raised \/ res.out.kind = "error")
       /\ UNCHANGED <<subject, exceptPSM>>

PSMPredictCall ==
  \E customerData \in Customers :
    /\ psmOut' = Call("predict", customerData, PSMPredict(psm, customerData))
    /\ UNCHANGED <<subject, raised, psm, psmHist, exceptPSM>>

PSMGetStatsCall ==
  /\ psmOut' = Call("getStats", <<>>, Returned(PSMGetStats(psm)))
  /\ UNCHANGED <<subject, raised, psm, psmHist, exceptPSM>>

NextPSM == PSMTrainCall \/ PSMPredictCall \/ PSMGetStatsCall

(***************************************************************************)
(* Actions on the store, called as DatasetSelector.jsx and ChartPanel.jsx  *)
(* call them.                                                              *)
(***************************************************************************)
\* A parsed file.
LoadedFiles ==
  { [name |-> "sales.csv", columns |-> <<"Day", "Sales">>,
     data |-> <<[Day |-> "Monday", Sales |-> 3], [Day |-> "Tuesday", Sales |-> 5]>>,
     source |-> "file"] }

DataSetIds(state) == { state.dataSets[i].id : i \in DOMAIN state.dataSets }

ChartIds(state) == { state.charts[i].id : i \in DOMAIN state.charts }

\* The configuration a ChartCard or the SmartChartGenerator hands over.
ChartConfigs == { [type |-> "line", config |-> "Sales by Day"] }

\* Date.now() moves on between two calls, or does not.
Tick ==
  /\ now < MaxClock
  /\ now' = now + 1
  /\ UNCHANGED <<subject, raised, store, storeOut, exceptStore>>

AddDataSetCall ==
  /\ Len(store.dataSets) < MaxDataSets
  /\ \E dataSet \in LoadedFiles :
       \E res \in {addDataSet(store, dataSet, now)} :
          /\ store' = res.state
          /\ storeOut' = Call("addDataSet", <<dataSet.name>>, Returned(res.returned))
          /\ UNCHANGED <<subject, raised, now, exceptStore>>

\* DatasetSelector.jsx: the trash button of a listed dataset.
RemoveDataSetCall ==
  \E id \in DataSetIds(store) :
    /\ store' = removeDataSet(store, id)
    /\ storeOut' = Call("removeDataSet", <<id>>, Returned(Null))
    /\ UNCHANGED <<subject, raised, now, exceptStore>>

\* DatasetSelector.jsx: a click on a listed dataset.
SetActiveDataSetCall ==
  \E id \in DataSetIds(store) :
    /\ store' = setActiveDataSet(store, id)
    /\ storeOut' = Call("setActiveDataSet", <<id>>, Returned(Null))
    /\ UNCHANGED <<subject, raised, now, exceptStore>>

\* ChartPanel.jsx handleAddChart.
AddChartCall ==
  /\ Len(store.charts) < MaxCharts
  /\ \E res \in {addChart(store, [type |-> "bar", config |-> "", dataSetId |-> store.activeDataSetId],
                          now)} :
       /\ store' = res.state
       /\ storeOut' = Call("addChart", <<"bar">>, Returned(res.returned))
       /\ UNCHANGED <<subject, raised, now, exceptStore>>

RECURSIVE AddCharts(_,_,_,_,_)
AddCharts(state, chartConfigs, dataSetId, times, i) ==
  IF i > Len(chartConfigs) THEN state
  ELSE AddCharts(addChart(state, [type |-> chartConfigs[i].type,
                                  config |-> chartConfigs[i].config,
                                  dataSetId |-> dataSetId], times[i]).state,
                 chartConfigs, dataSetId, times, i + 1)

\* Readings of Date.now() in n calls in a row.
Readings(from, n) ==
  { times \in [1..n -> from..MaxClock] :
      /\ times[1] \in {from, from + 1}
      /\ \A i \in 1..(n - 1) : times[i + 1] \in {times[i], times[i] + 1} }

\* ChartPanel.jsx handleGenerateSmartCharts: one addChart per configuration.
GenerateSmartChartsCall ==
  \E chartConfigs \in SeqsOf(ChartConfigs, 1, 2) :
    /\ Len(store.charts) + Len(chartConfigs) <= MaxCharts
    /\ \E times \in Readings(now, Len(chartConfigs)) :
         /\ store' = AddCharts(store, chartConfigs, store.activeDataSetId, times, 1)
         /\ storeOut' = Call("generateSmartCharts", chartConfigs, Returned(Null))
         /\ now' = times[Len(times)]
         /\ UNCHANGED <<subject, raised, exceptStore>>

UpdateChartCall ==
  \E id \in ChartIds(store), updates \in ChartConfigs :
    /\ store' = updateChart(store, id, updates)
    /\ storeOut' = Call("updateChart", <<id, updates>>, Returned(Null))
    /\ UNCHANGED <<subject, raised, now, exceptStore>>

RemoveChartCall ==
  \E id \in ChartIds(store) :
    /\ store' = removeChart(store, id)
    /\ storeOut' = Call("removeChart", <<id>>, Returned(Null))
    /\ UNCHANGED <<subject, raised, now, exceptStore>>

DuplicateChartCall ==
  /\ Len(store.charts) < MaxCharts
  /\ \E id \in ChartIds(store) :
       \E res \in {duplicateChart(store, id, now)} :
          /\ store' = res.state
          /\ storeOut' = Call("duplicateChart", <<id>>, Returned(res.returned))
          /\ UNCHANGED <<subject, raised, now, exceptStore>>

ResetCall ==
  /\ store' = reset(store)
  /\ storeOut' = Call("reset", <<>>, Returned(Null))
  /\ UNCHANGED <<subject, raised, now, exceptStore>>

NextStore ==
  \/ Tick
  \/ AddDataSetCall
  \/ RemoveDataSetCall
  \/ SetActiveDataSetCall
  \/ AddChartCall
  \/ GenerateSmartChartsCall
  \/ UpdateChartCall
  \/ RemoveChartCall
  \/ DuplicateChartCall
  \/ ResetCall

(***************************************************************************)
(* Actions on the FileUpload component.                                    *)
(***************************************************************************)
Parsed(columns, data) == Returned([columns |-> columns, data |-> data])

\* A CSV file with a row, a CSV file without rows, a workbook the reader
\* fails on, and a text file.
DroppedFiles ==
  << [name |-> <<"a", ".", "c", "s", "v">>,
      result |-> Parsed(<<"Day">>, <<[Day |-> "Monday"]>>)],
     [name |-> <<"b", ".", "C", "S", "V">>, result |-> Parsed(<<>>, <<>>)],
     [name |-> <<"c", ".", "x", "l", "s">>, result |-> Threw("Failed to read file")],
     [name |-> <<"d", ".", "t", "x", "t">>, result |-> Threw("")] >>

\* One to MaxFiles of the files, each at most once, in any order.
Drops ==
  { Arr([i \in DOMAIN ix |-> DroppedFiles[ix[i]]]) :
      ix \in { t \in SeqsOf(DOMAIN DroppedFiles, 1, MaxFiles) :
                 \A i, j \in DOMAIN t : i # j => t[i] # t[j] } }

App == [store |-> store, upload |-> upload, uploads |-> uploads]

\* handleDrop / handleFileSelect with the listed files.
HandleDropCall ==
  \E files \in Drops :
    /\ Len(uploads) + Len(files) <= MaxFiles
    /\ \E app \in {ProcessFiles(App, files, 1)} :
          /\ store' = app.store
          /\ upload' = app.upload
          /\ uploads' = app.uploads
          /\ UNCHANGED <<subject, raised, storeOut, now, exceptUpload>>

\* The parser of one awaited file calls back and processFile runs to its end.
ProcessFileResumeCall ==
  \E i \in DOMAIN uploads :
    /\ uploads[i].pc = "awaiting"
    /\ \E app \in {ProcessFileResume(App, i, now)} :
         /\ store' = app.store
         /\ upload' = app.upload
         /\ uploads' = app.uploads
         /\ UNCHANGED <<subject, raised, storeOut, now, exceptUpload>>

UploadTick ==
  /\ now < MaxClock
  /\ now' = now + 1
  /\ UNCHANGED <<subject, raised, store, storeOut, uploadVars, exceptUpload>>

NextUpload == HandleDropCall \/ ProcessFileResumeCall \/ UploadTick

(***************************************************************************)
(* Actions on the MergePanel component.                                    *)
(***************************************************************************)
\* commonColumns: the columns of the first dataset that the second has too.
CommonColumns(ds1, ds2) ==
  { ds1.columns[i] : i \in { k \in DOMAIN ds1.columns :
                               \E j \in DOMAIN ds2.columns : ds2.columns[j] = ds1.columns[k] } }

\* The join columns the panel lets handleMerge run with.
JoinChoices(state, dataset1, dataset2, mergeType) ==
  IF mergeType = "union" THEN {<<>>}
  ELSE CommonColumns(FindById(state.dataSets, dataset1)[1], FindById(state.dataSets, dataset2)[1])

HandleMergeCall ==
  /\ merged.call = "none"
  /\ \E dataset1 \in DataSetIds(store), mergeType \in {"union", "inner", "left"} :
       \E dataset2 \in DataSetIds(store) \ {dataset1} :
          \E joinColumn \in JoinChoices(store, dataset1, dataset2, mergeType) :
             \E res \in {handleMerge(store, dataset1, dataset2, mergeType, joinColumn, now)} :
                /\ store' = res.state
                /\ merged' = Call("handleMerge",
                                  [dataset1 |-> dataset1, dataset2 |-> dataset2,
                                   mergeType |-> mergeType, joinColumn |-> joinColumn],
                                  res.out)
                /\ UNCHANGED <<subject, raised, storeOut, now, exceptMerge>>

NextMerge == HandleMergeCall

(***************************************************************************)
(* Specifications.                                                         *)
(***************************************************************************)
Next ==
  \/ subject = "lr" /\ NextLR
  \/ subject = "holt" /\ NextHolt
  \/ subject = "df" /\ NextDF
  \/ subject = "tf" /\ NextTF
  \/ subject = "dtc" /\ NextDTC
  \/ subject = "price" /\ NextPrice
  \/ subject = "rf" /\ NextRF
  \/ subject = "psm" /\ NextPSM
  \/ subject = "store" /\ NextStore
  \/ subject = "upload" /\ NextUpload
  \/ subject = "merge" /\ NextMerge

Spec == Init /\ [][Next]_vars

InitLR == Init /\ subject = "lr"

SpecLR == InitLR /\ [][NextLR]_vars

InitDF == Init /\ subject = "df"

SpecDF == InitDF /\ [][NextDF]_vars

NextRegression ==
  \/ subject = "lr" /\ NextLR
  \/ subject = "df" /\ NextDF

InitRegression == Init /\ subject \in {"lr", "df"}

SpecRegression == InitRegression /\ [][NextRegression]_vars

NextRegSmooth ==
  \/ subject = "lr" /\ NextLR
  \/ subject = "holt" /\ NextHolt

InitRegSmooth == Init /\ subject \in {"lr", "holt"}

SpecRegSmooth == InitRegSmooth /\ [][NextRegSmooth]_vars

InitTF == Init /\ subject = "tf"

SpecTF == InitTF /\ [][NextTF]_vars

NextRetrain ==
  \/ subject = "lr" /\ NextLR
  \/ subject = "holt" /\ NextHolt
  \/ subject = "df" /\ NextDF
  \/ subject = "tf" /\ NextTF

InitRetrain == Init /\ subject \in {"lr", "holt", "df", "tf"}

SpecRetrain == InitRetrain /\ [][NextRetrain]_vars

InitDTC == Init /\ subject = "dtc"

SpecDTC == InitDTC /\ [][NextDTC]_vars

NextTopN ==
  \/ subject = "dtc" /\ NextDTC
  \/ subject = "id3" /\ NextID3

InitTopN == Init /\ subject \in {"dtc", "id3"}

SpecTopN == InitTopN /\ [][NextTopN]_vars

InitHolt64 == Init /\ subject = "holt64"

SpecHolt64 == InitHolt64 /\ [][NextHolt64]_vars

InitPrice == Init /\ subject = "price"

SpecPrice == InitPrice /\ [][NextPrice]_vars

InitRF == Init /\ subject = "rf"

SpecRF == InitRF /\ [][NextRF]_vars

NextTrees ==
  \/ subject = "dtc" /\ NextDTC
  \/ subject = "rf" /\ NextRF

InitTrees == Init /\ subject \in {"dtc", "rf"}

SpecTrees == InitTrees /\ [][NextTrees]_vars

InitPSM == Init /\ subject = "psm"

SpecPSM == InitPSM /\ [][NextPSM]_vars

NextModels ==
  \/ subject = "dtc" /\ NextDTC
  \/ subject = "lr" /\ NextLR
  \/ subject = "df" /\ NextDF
  \/ subject = "holt" /\ NextHolt
  \/ subject = "tf" /\ NextTF
  \/ subject = "psm" /\ NextPSM

InitModels == Init /\ subject \in {"dtc", "lr", "df", "holt", "tf", "psm"}

SpecModels == InitModels /\ [][NextModels]_vars

InitHolt == Init /\ subject = "holt"

SpecHolt == InitHolt /\ [][NextHolt]_vars

InitStore == Init /\ subject = "store"

SpecStore == InitStore /\ [][NextStore]_vars

InitUpload == Init /\ subject = "upload"

SpecUpload == InitUpload /\ [][NextUpload]_vars

InitMerge == Init /\ subject = "merge"

SpecMerge == InitMerge /\ [][NextMerge]_vars

InitGrow == Init /\ subject = "grow"

SpecGrow == InitGrow /\ [][NextGrow]_vars

NextBuilt ==
  \/ subject = "grow" /\ NextGrow
  \/ subject = "grove" /\ NextGrove

InitBuilt == Init /\ subject \in {"grow", "grove"}

SpecBuilt == InitBuilt /\ [][NextBuilt]_vars

(***************************************************************************)
(* Claims.                                                                 *)
(***************************************************************************)

\* C3: LinearRegressionModel.train and HoltForecaster.fit throw exactly when
\* they are given fewer than 2 observations, and as long as no train/fit call
\* has returned the model stays untrained (weights / level null).
C3_NeedsTwoObservations ==
  /\ lrOut.call = "train" => (lrOut.kind = "error" <=> Len(lrOut.arg) < 2)
  /\ lrHist = <<>> => lrm.weights = Null
  /\ holtOut.call = "fit" => (holtOut.kind = "error" <=> Len(holtOut.arg) < 2)
  /\ holtHist = <<>> => holt.level = Null

C3_Witness ==
  /\ lrOut.call = "train" /\ Len(lrOut.arg) = 1 /\ lrOut.kind = "error"
  /\ lrm.weights = Null

\* C10: after train on a table whose Sales all equal c, the bias is c, every
\* weight is 0 and predict returns c, whatever the feature columns are.
ConstantSales(data) == \A i \in DOMAIN data : data[i].Sales = data[1].Sales

NonNegativeInteger(x) == IsInteger(x) /\ RLe(R(0), x)

C9_NonNegativeIntegerPredictions ==
  /\ (lrOut.call = "predict" /\ lrHist # <<>>) =>
        /\ lrOut.kind = "value"
        /\ NonNegativeInteger(lrOut.value[1])
  /\ (dfOut.call \in {"predictTotal", "predictItem"} /\ dfHist # <<>>) =>
        /\ dfOut.kind = "value"
        /\ NonNegativeInteger(dfOut.value[1])
  /\ (dfOut.call = "predictAllItems" /\ dfHist # <<>>) =>
        /\ dfOut.kind = "value"
        /\ \A i \in DOMAIN dfOut.value[1] :
              NonNegativeInteger(dfOut.value[1][i].predicted)

\* C2: after successful train/fit calls only, every predict / forecast /
\* getStats result of a LinearRegressionModel, HoltForecaster,
\* DemandForecaster or TradeForecaster equals the result of a fresh instance
\* trained only on the last dataset.
LRQuery(m, call, arg) == LRPredict(m, arg)

HoltQuery(h, call, arg) ==
  IF call = "forecast" THEN HoltForecast(h, arg)
  ELSE HoltConfidenceIntervals(h, arg[1], arg[2])

DFQuery(m, call, arg) ==
  CASE call = "predictTotal" -> DFPredictTotal(m, arg)
    [] call = "predictItem" -> DFPredictItem(m, arg[1], arg[2])
    [] call = "predictAllItems" -> DFPredictAllItems(m, arg)
    [] call = "getStats" -> DFGetStats(m)

TFQuery(m, call, arg) ==
  CASE call = "forecast" -> TFForecast(m, arg[1], arg[2])
    [] call = "getStats" -> TFGetStats(m, arg)
    [] call = "getTopCountries" -> TFGetTopCountries(m, arg)

C2_RetrainReplacesState ==
  /\ (lrHist # <<>> /\ ~raised /\ lrOut.call = "predict") =>
        lrOut = Call(lrOut.call, lrOut.arg,
                     LRQuery(LRTrain(LRNew, lrHist[1]).obj, lrOut.call, lrOut.arg))
  /\ (holtHist # <<>> /\ ~raised /\ holtOut.call \in {"forecast", "getConfidenceIntervals"}) =>
        holtOut = Call(holtOut.call, holtOut.arg,
                       HoltQuery(HoltFit(HoltNew(holt.alpha, holt.beta), holtHist[1]).obj,
                                 holtOut.call, holtOut.arg))
  /\ (dfHist # <<>> /\ ~raised /\ dfOut.call \notin {"none", "train"}) =>
        dfOut = Call(dfOut.call, dfOut.arg,
                     DFQuery(DFTrain(DFNew, dfHist[1]).obj, dfOut.call, dfOut.arg))
  /\ (tfHist # <<>> /\ ~raised /\ tfOut.call \notin {"none", "train"}) =>
        tfOut = Call(tfOut.call, tfOut.arg,
                     TFQuery(TFTrain(TFNew, tfHist[1], Q(3, 10), Q(1, 10)).obj,
                             tfOut.call, tfOut.arg))

\* C8: a parsed price p is bucketed as budget iff p <= 3, moderate iff
\* 3 < p <= 4.5 and premium iff p > 4.5 (3.00 budget, 3.01 and 4.50 moderate,
\* 4.51 premium), and of two prices the larger never gets the lower tier.
TierRank(tier) == CASE tier = "budget" -> 0 [] tier = "moderate" -> 1 [] tier = "premium" -> 2

Bucketed(call) == call # Null /\ call[1].price # Null

C8_PriceTiers ==
  /\ Bucketed(tierOut) =>
       LET p == tierOut[1].price[1]
           tier == tierOut[1].tier
       IN /\ tier # Null
          /\ tier[1] = "budget" <=> p[1] * 1 <= 3 * p[2]
          /\ tier[1] = "moderate" <=> (p[1] * 1 > 3 * p[2] /\ p[1] * 2 <= 9 * p[2])
          /\ tier[1] = "premium" <=> p[1] * 2 > 9 * p[2]
  /\ (tierOut # Null /\ tierOut[1].cell = PriceText(3, 0, 0)) => tierOut[1].tier = Some("budget")
  /\ (tierOut # Null /\ tierOut[1].cell = PriceText(3, 0, 1)) => tierOut[1].tier = Some("moderate")
  /\ (tierOut # Null /\ tierOut[1].cell = PriceText(4, 5, 0)) => tierOut[1].tier = Some("moderate")
  /\ (tierOut # Null /\ tierOut[1].cell = PriceText(4, 5, 1)) => tierOut[1].tier = Some("premium")
  /\ (Bucketed(tierPrev) /\ Bucketed(tierOut)
        /\ tierPrev[1].price[1][1] * tierOut[1].price[1][2]
             <= tierOut[1].price[1][1] * tierPrev[1].price[1][2]) =>
       TierRank(tierPrev[1].tier[1]) <= TierRank(tierOut[1].tier[1])

C8_Witness ==
  /\ tierPrev # Null /\ tierPrev[1].cell = PriceText(3, 0, 0)
  /\ tierPrev[1].tier = Some("budget")
  /\ tierOut # Null /\ tierOut[1].cell = PriceText(3, 0, 1)
  /\ tierOut[1].price = Some(Q(301, 100)) /\ tierOut[1].tier = Some("moderate")

\* C5: for any tree DecisionTreeClassifier.train has produced, on any
\* dataset (0 or 1 rows included), predict on any sample returns a label that
\* is a target value of the training data or the defaultPrediction of a
\* decision node of the tree; and predictOne of every tree a
\* RandomForestClassifier.fit has grown returns one of the training labels.
RECURSIVE DefaultsOf(_)
DefaultsOf(node) ==
  IF node.type = "leaf" THEN {}
  ELSE {node.defaultPrediction}
         \cup UNION {DefaultsOf(node.children[i].node) : i \in DOMAIN node.children}

TargetValues(data) == {data[i].T : i \in DOMAIN data}

C5_PredictReturnsKnownLabel ==
  /\ (dtc.tree # Null /\ dtcOut.call = "predict") =>
        /\ dtcOut.kind = "value"
        /\ dtcOut.value[1].prediction \in TargetValues(dtcGrown[1]) \cup DefaultsOf(dtc.tree[1])
  /\ rfHist # <<>> =>
        \A i \in DOMAIN rf.trees, x \in RFQueries :
           predictOne(rf.trees[i], Project(x, rf.featureSubsets[i]))
             \in Range(LabelsOf(rfHist[1]))

\* C6: predictProba of a fitted RandomForestClassifier maps exactly the
\* classes seen in fit, each to (trees voting for it) / nTrees, classes
\* without votes to 0, and the values sum to 1.
VotersFor(label, x) ==
  {i \in DOMAIN rf.trees :
     predictOne(rf.trees[i], Project(x, rf.featureSubsets[i])) = label}

FirstVoter(label, x) ==
  CHOOSE i \in VotersFor(label, x) : \A j \in VotersFor(label, x) : i <= j

C7_MajorityVote ==
  (rfHist # <<>> /\ rfOut.call = "predict") =>
     /\ rfOut.kind = "value"
     /\ Len(rfOut.value[1]) = 1
     /\ VotersFor(rfOut.value[1][1], rfOut.arg) # {}
     /\ \A label \in Range(LabelsOf(rfHist[1])) :
           /\ Cardinality(VotersFor(label, rfOut.arg))
                <= Cardinality(VotersFor(rfOut.value[1][1], rfOut.arg))
           /\ (label # rfOut.value[1][1]
                 /\ Cardinality(VotersFor(label, rfOut.arg))
                      = Cardinality(VotersFor(rfOut.value[1][1], rfOut.arg)))
                => FirstVoter(rfOut.value[1][1], rfOut.arg) < FirstVoter(label, rfOut.arg)

\* C4: on a table with a price column, PriceSensitivityModel.train throws
\* exactly when fewer than 10 rows have a parseable price, and then leaves the
\* instance as it was; otherwise it sets trained and returns statistics whose
\* samples is the number of rows with a parseable price.
ParseableRows(data) ==
  Cardinality({i \in DOMAIN data : parsePrice(data[i].Price) # Null})

C4_TrainNeedsTenPrices ==
  [][(psmOut'.call = "train" /\ "Price" \in Columns(psmOut'.arg)) =>
        /\ psmOut'.kind = "error" <=> ParseableRows(psmOut'.arg) < 10
        /\ psmOut'.kind = "error" => psm' = psm
        /\ psmOut'.kind = "value" =>
              /\ psm'.trained
              /\ psmOut'.value[1].samples = ParseableRows(psmOut'.arg)
              /\ psm'.stats = psmOut'.value]_vars

C4_Witness ==
  /\ psmOut.call = "train" /\ psmOut.kind = "error"
  /\ "Price" \in Columns(psmOut.arg) /\ ParseableRows(psmOut.arg) = 9
  /\ psm.trained /\ psm.stats[1].samples = 10 /\ Len(psmHist[1]) = 11

\* C1: as long as no train/fit call on the instance has returned, predict and
\* predictTopN of DecisionTreeClassifier, predict of LinearRegressionModel,
\* predictTotal, predictItem and predictAllItems of DemandForecaster, forecast
\* and getConfidenceIntervals of HoltForecaster, forecast of TradeForecaster
\* and predict of PriceSensitivityModel throw, also after a train/fit call
\* that threw.
C1_UntrainedCallsRaise ==
  /\ (dtcHist = <<>> /\ dtcOut.call \in {"predict", "predictTopN"}) => dtcOut.kind = "error"
  /\ (lrHist = <<>> /\ lrOut.call = "predict") => lrOut.kind = "error"
  /\ (dfHist = <<>> /\ dfOut.call \in {"predictTotal", "predictItem", "predictAllItems"})
        => dfOut.kind = "error"
  /\ (holtHist = <<>> /\ holtOut.call \in {"forecast", "getConfidenceIntervals"})
        => holtOut.kind = "error"
  /\ (tfHist = <<>> /\ tfOut.call = "forecast") => tfOut.kind = "error"
  /\ (psmHist = <<>> /\ psmOut.call = "predict") => psmOut.kind = "error"

\* C11: the r2 that LinearRegressionModel.train returns and getStats reports,
\* and the r2 of HoltForecaster.getStats, is a number from 0 to 1 after every
\* accepted training set, equal target values (SStot = 0) included.
UnitInterval(x) == ~IsNaN(x) /\ RLe(R(0), x) /\ RLe(x, R(1))

C11_RSquaredInUnitInterval ==
  /\ (lrOut.call = "train" /\ lrOut.kind = "value") => UnitInterval(lrOut.value[1].r2)
  /\ (lrOut.call = "getStats" /\ lrHist # <<>>) =>
        UnitInterval(lrOut.value[1].trainStats[1].r2)
  /\ (holtOut.call = "getStats" /\ holtHist # <<>>) =>
        /\ holtOut.value[1] # Null
        /\ UnitInterval(holtOut.value[1][1].r2)

\* C12: train on a fresh DemandForecaster gives an item its own model exactly
\* when the item occurs in at least 3 distinct condition buckets (day, time
\* slot, rounded rain, rounded min and max temperature, season) of the table;
\* on an instance trained once, predictItem of an item without a model of its
\* own returns round(predictTotal(features) / number of distinct items of the
\* table), and of an item with one returns that model's prediction.
BucketsOf(data, item) ==
  {GroupKey(Condition(data[i], RegressionColumns(Columns(data)))) :
     i \in {j \in DOMAIN data :
              Condition(data[j], RegressionColumns(Columns(data))).item = item}}

DistinctItems(data) ==
  {Condition(data[i], RegressionColumns(Columns(data))).item : i \in DOMAIN data}

C12_ItemModelsFromThreeBuckets ==
  [][/\ (dfm = DFNew /\ dfOut'.call = "train" /\ dfOut'.kind = "value") =>
          \A item \in DFItems \cup {"Unknown"} :
             KeyIndex(dfm'.itemModels, item, 1) # 0
               <=> Cardinality(BucketsOf(dfOut'.arg, item)) >= 3
     /\ (dfOut'.call = "predictItem" /\ dfHist # <<>>
           /\ dfm = DFTrain(DFNew, dfHist[1]).obj) =>
          /\ dfOut'.kind = "value"
          /\ Cardinality(BucketsOf(dfHist[1], dfOut'.arg[2])) < 3 =>
                dfOut'.value[1]
                  = RRound(RDiv(DFPredictTotal(dfm, dfOut'.arg[1]).value,
                                R(Cardinality(DistinctItems(dfHist[1])))))
          /\ Cardinality(BucketsOf(dfHist[1], dfOut'.arg[2])) >= 3 =>
                dfOut'.value[1]
                  = LRPredict(dfm.itemModels[KeyIndex(dfm.itemModels, dfOut'.arg[2], 1)].model,
                              dfOut'.arg[1]).value
    ]_vars

C12_Witness ==
  /\ dfHist = <<DFRows>> /\ dfm = DFTrain(DFNew, DFRows).obj
  /\ Len(dfm.itemModels) = 1 /\ dfm.itemModels[1].key = "Latte"
  /\ dfOut.call = "predictItem" /\ dfOut.arg[2] = "Mocha" /\ dfOut.kind = "value"

ConstantStep(values) ==
  /\ Len(values) >= 2
  /\ \A i \in 2..Len(values) : RSub(values[i], values[i - 1]) = RSub(values[2], values[1])

LastOf(values) == values[Len(values)]

\* C15 (as stated): at every step of getConfidenceIntervals of a fitted
\* HoltForecaster lower <= prediction <= upper, and the width upper - lower
\* does not decrease from a step to a later one, also when a negative trend
\* drives the forecasts to the zero clamp.
Width(interval) == RSub(interval.upper, interval.lower)

Margin(interval) == RSub(interval.upper, interval.prediction)

IntervalsCalled == holt.level # Null /\ holtOut.call = "getConfidenceIntervals"

Ordered(interval) ==
  RLe(interval.lower, interval.prediction) /\ RLe(interval.prediction, interval.upper)

ValidTradeRows(data) ==
  SelectSeq(Arr([i \in DOMAIN data |-> TradeRow(data[i], TradeColumns(Columns(data)))]),
            LAMBDA r : TruthyText(r.monthStr) /\ ~IsNaN(r.value))

\* The sum of the values of the valid rows of one calendar month and one type.
MonthTotal(data, date, type) ==
  RSum(SeriesValues(SelectSeq(ValidTradeRows(data),
                              LAMBDA r : /\ r.statistic = type
                                         /\ parseMonthToDate(r.monthStr[1]) = Some(date))))

SeriesAt(seriesByType, at) == IF at = 0 THEN <<>> ELSE seriesByType[at].series

\* The series of one type in a trained forecaster m (empty when there is none).
SeriesIn(m, type) ==
  SeriesAt(m.processedData[1].seriesByType,
           KeyIndex(m.processedData[1].seriesByType, type, 1))

ModelIffThreePoints(m) ==
  \A type \in TFTypes : (KeyIndex(m.models, type, 1) # 0) <=> (Len(SeriesIn(m, type)) >= 3)

OneAscendingPointPerMonth(m) ==
  \A type \in TFTypes :
    \A i, j \in DOMAIN SeriesIn(m, type) :
      i < j => SeriesIn(m, type)[i].timestamp < SeriesIn(m, type)[j].timestamp

PointsAreMonthTotals(m, data) ==
  \A type \in TFTypes :
    \A i \in DOMAIN SeriesIn(m, type) :
      SeriesIn(m, type)[i].value = MonthTotal(data, SeriesIn(m, type)[i].date, type)

TrainedFresh == tfm = TFNew /\ tfOut'.call = "train" /\ tfOut'.kind = "value"

\* C16: after train on a fresh TradeForecaster a type has a model exactly
\* when its series has at least 3 points, and every series is in ascending
\* chronological order with at most one point per calendar month, each
\* point's value being the sum of the valid rows of that month and type.
C16_SeriesAreMonthlyTotals ==
  [][TrainedFresh =>
       /\ ModelIffThreePoints(tfm')
       /\ OneAscendingPointPerMonth(tfm')
       /\ PointsAreMonthTotals(tfm', tfOut'.arg)]_vars

(***************************************************************************)
(* C17.                                                                    *)
(***************************************************************************)
\* The calendar month that comes k months after date: December is followed
\* by January of the next year.
RECURSIVE MonthAfter(_, _)
MonthAfter(date, k) ==
  IF k = 0 THEN date
  ELSE IF MonthAfter(date, k - 1).month = 11
       THEN DateOf(MonthAfter(date, k - 1).year + 1, 0)
  ELSE DateOf(MonthAfter(date, k - 1).year, MonthAfter(date, k - 1).month + 1)

LabelOf(date) == ToString(date.year) \o " " \o MonthLabels[date.month + 1]

ForecastCalled == tfOut.call = "forecast"

\* The series of the model that a forecast call was answered from.
ForecastSeries == tfm.models[KeyIndex(tfm.models, tfOut.arg[1], 1)].series

FollowsHistory(result, steps) ==
  /\ Len(result.forecasts) = steps
  /\ \A i \in DOMAIN result.forecasts :
       /\ result.forecasts[i].month =
            LabelOf(MonthAfter(result.historical[Len(result.historical)].date, i))
       /\ result.forecasts[i].isForecast
  /\ Len(result.historical) = Len(ForecastSeries)
  /\ \A i \in DOMAIN result.historical :
       /\ result.historical[i].month = ForecastSeries[i].month
       /\ result.historical[i].value = ForecastSeries[i].value
       /\ ~result.historical[i].isForecast
  /\ \A i, j \in DOMAIN result.historical :
       i < j => Timestamp(result.historical[i].date) <= Timestamp(result.historical[j].date)
  /\ result.combined = result.historical \o result.forecasts
  /\ Len(result.combined) = Len(ForecastSeries) + steps

\* C17: on a trained TradeForecaster, forecast(type, steps) for a type that
\* has a model returns steps forecast entries labelled with the calendar
\* months that follow the last historical month, and combined is the
\* historical entries in chronological order followed by the forecasts,
\* the former flagged isForecast = false and the latter isForecast = true.
C17_ForecastFollowsHistory ==
  (ForecastCalled /\ tfm.trained /\ KeyIndex(tfm.models, tfOut.arg[1], 1) # 0) =>
     /\ tfOut.kind = "value"
     /\ FollowsHistory(tfOut.value[1], tfOut.arg[2])

C17_Witness ==
  /\ ForecastCalled /\ tfOut.kind = "value" /\ tfOut.arg[2] = MaxSteps
  /\ tfOut.value[1].historical[Len(tfOut.value[1].historical)].month = "2023 December"
  /\ tfOut.value[1].forecasts[1].month = "2024 January"
  /\ tfOut.value[1].forecasts[2].month = "2024 February"
  /\ Len(tfOut.value[1].combined) = 3 + MaxSteps

(***************************************************************************)
(* C18.                                                                    *)
(***************************************************************************)
\* The sum of the values of the valid rows of one country and one type.
CountryTotal(data, country, type) ==
  RSum(SeriesValues(SelectSeq(ValidTradeRows(data),
                              LAMBDA r : r.statistic = type /\ r.country = country)))

CountriesIn(data, type) ==
  {r.country : r \in {v \in Range(ValidTradeRows(data)) : v.statistic = type}}

TopCountriesCalled == tfOut.call = "getTopCountries" /\ tfOut.kind = "value"

\* C18: getTopCountries(type) returns at most 10 entries in non-increasing
\* order of value, each naming a country of the data of that type with the
\* sum of the values of the valid rows of that country and type.
C18_TopCountriesOfType ==
  (TopCountriesCalled /\ tfHist # <<>>) =>
     /\ Len(tfOut.value[1]) <= 10
     /\ \A i, j \in DOMAIN tfOut.value[1] :
          i < j => RLe(tfOut.value[1][j].value, tfOut.value[1][i].value)
     /\ \A i \in DOMAIN tfOut.value[1] :
          /\ tfOut.value[1][i].country \in CountriesIn(tfHist[1], tfOut.arg)
          /\ tfOut.value[1][i].value =
               CountryTotal(tfHist[1], tfOut.value[1][i].country, tfOut.arg)

(***************************************************************************)
(* C19.                                                                    *)
(***************************************************************************)
OwnChild(node, sample) == KeyIndex(node.children, SampleKey(sample, node.feature), 1)

\* The node at which the walk of sample down the tree ends: a leaf, or a
\* decision node without a child branch for the sample's value.
RECURSIVE StopNode(_, _)
StopNode(node, sample) ==
  IF node.type = "leaf" \/ OwnChild(node, sample) = 0 THEN node
  ELSE StopNode(node.children[OwnChild(node, sample)].node, sample)

\* The rows of the training subset that the node of StopNode was built from.
RECURSIVE StopRows(_, _, _)
StopRows(node, sample, rows) ==
  IF node.type = "leaf" \/ OwnChild(node, sample) = 0 THEN rows
  ELSE StopRows(node.children[OwnChild(node, sample)].node, sample,
                SelectSeq(rows, LAMBDA row :
                            row[node.feature] = SampleKey(sample, node.feature)))

CountOf(rows, label) == Cardinality({i \in DOMAIN rows : rows[i].T = label})

IsMajorityOf(label, rows) ==
  /\ CountOf(rows, label) > 0
  /\ \A other \in TargetValues(rows) : CountOf(rows, other) <= CountOf(rows, label)

\* The training sets that the tree of dtc can have been built from.
GrownFrom ==
  {trainTestSplit(dtcGrown[1], order).train : order \in Shuffles(Len(dtcGrown[1]))}

TreeCalled(call) == dtc.tree # Null /\ dtcOut.call = call

Unbranched(sample) == StopNode(dtc.tree[1], sample).type = "node"

\* C19: when predict on a trained ID3 tree reaches a decision node without a
\* child branch for the sample's value, it returns that node's
\* defaultPrediction, the majority label of the node's training subset, with
\* confidence 0.5 and an empty distribution, without raising; predictTopN
\* returns one entry with that label and confidence 50.
C19_UnseenValueFallsBack ==
  /\ (TreeCalled("predict") /\ Unbranched(dtcOut.arg)) =>
        /\ dtcOut.kind = "value"
        /\ dtcOut.value[1] =
             [prediction |-> StopNode(dtc.tree[1], dtcOut.arg).defaultPrediction,
              confidence |-> Q(1, 2), distribution |-> Some(<<>>)]
        /\ \E rows \in GrownFrom :
             IsMajorityOf(dtcOut.value[1].prediction,
                          StopRows(dtc.tree[1], dtcOut.arg, rows))
  /\ (TreeCalled("predictTopN") /\ Unbranched(dtcOut.arg[1])) =>
        /\ dtcOut.kind = "value"
        /\ dtcOut.value[1] =
             <<[label |-> StopNode(dtc.tree[1], dtcOut.arg[1]).defaultPrediction,
                confidence |-> R(50)]>>

(***************************************************************************)
(* C20.                                                                    *)
(***************************************************************************)
LabelsIn(leaf) == IF leaf.distribution = Null THEN 0 ELSE Len(leaf.distribution[1])

Smaller(a, b) == IF a < b THEN a ELSE b

\* What the claim says of the entries that predictTopN(sample, n) returned on
\* a tree in which sample resolves to leaf.
TopNOfLeaf(entries, leaf, n) ==
  /\ Len(entries) = Smaller(n, LabelsIn(leaf))
  /\ \A i, j \in DOMAIN entries : i < j => RLe(entries[j].confidence, entries[i].confidence)
  /\ entries # <<>> => entries[1].label = leaf.label

TopNAgrees(tree, out) ==
  (out.call = "predictTopN" /\ StopNode(tree, out.arg[1]).type = "leaf") =>
     /\ out.kind = "value"
     /\ TreePredict(tree, out.arg[1]).value.prediction = StopNode(tree, out.arg[1]).label
     /\ TopNOfLeaf(out.value[1], StopNode(tree, out.arg[1]), out.arg[2])

\* C20: for a trained ID3 tree and a sample that resolves to a leaf,
\* predictTopN(sample, n) returns min(n, number of labels in the leaf's
\* distribution) entries in non-increasing order of percentage, the first
\* of them carrying the label that predict returns, the leaf's majority label.
C20_TopNStartsWithPrediction ==
  /\ dtc.tree # Null => TopNAgrees(dtc.tree[1], dtcOut)
  /\ id3Tree # Null => TopNAgrees(id3Tree[1], id3Out)

(***************************************************************************)
(* C14 in the arithmetic of the program.                                   *)
(***************************************************************************)
FAbs(x) == [x EXCEPT !.sign = 1]

\* 2^-40
Tolerance == [sign |-> 1, man |-> <<1>>, exp |-> -40]

\* The double x is within Tolerance of the number q of the model.
Near(x, q) == ~FLt(Tolerance, FAbs(FSum(x, FNeg(F(q)))))

StepOf(values) == RSub(values[2], values[1])

\* The value the claim gives for step i of a forecast after values.
Continued(values, i) == RMax(R(0), RAdd(LastOf(values), RMul(R(i), StepOf(values))))

Fitted64 == h64Hist # <<>> /\ ~raised /\ ConstantStep(h64Hist[1])

Dyadic(x) == x \in {FZero, FDiv(1, 2), FOne}

RECURSIVE NodeWeights(_)
RECURSIVE ChildWeights(_, _)
ChildWeights(children, k) ==
  IF k = 0 THEN <<>>
  ELSE ChildWeights(children, k - 1) \o NodeWeights(children[k].node)

NodeWeights(tree) ==
  IF tree.type = "leaf" THEN <<>>
  ELSE <<[feature |-> tree.feature, weight |-> RMul(tree.gain, R(tree.samples))]>>
         \o ChildWeights(tree.children, Len(tree.children))

WeightOf(nodes, feature) ==
  RSum(Arr([j \in DOMAIN nodes |->
              IF nodes[j].feature = feature THEN nodes[j].weight ELSE R(0)]))

\* importance maps exactly the features of the decision nodes, each to its
\* share of the total gain * samples.
SharesOfNodes(importance, nodes) ==
  /\ {importance[i].key : i \in DOMAIN importance} = {nodes[j].feature : j \in DOMAIN nodes}
  /\ \A i, j \in DOMAIN importance : importance[i].key = importance[j].key => i = j
  /\ \A i \in DOMAIN importance :
        importance[i].value
          = RDiv(WeightOf(nodes, importance[i].key),
                 RSum(Arr([j \in DOMAIN nodes |-> nodes[j].weight])))

NonNegativeSummingToOne(shares) ==
  /\ \A i \in DOMAIN shares : RLe(R(0), shares[i])
  /\ RSum(shares) = R(1)

TreeImportanceNormalised ==
  (dtcOut.call = "train" /\ dtcOut.kind = "value" /\ dtc.tree[1].type = "node") =>
     /\ SharesOfNodes(dtcOut.value[1].featureImportance, NodeWeights(dtc.tree[1]))
     /\ NonNegativeSummingToOne(
          Arr([i \in DOMAIN dtcOut.value[1].featureImportance |->
                 dtcOut.value[1].featureImportance[i].value]))

\* The number of selections of a fitted forest: the sizes of its subsets.
Selections(forest) ==
  RSum(Arr([i \in DOMAIN forest.featureSubsets |-> R(Len(forest.featureSubsets[i]))]))

SharesOfForest(forest, list) ==
  /\ Len(list) = Len(forest.featureNames)
  /\ \A i \in DOMAIN forest.featureNames :
        \E j \in DOMAIN list :
          /\ list[j].feature = forest.featureNames[i]
          /\ list[j].importance = RDiv(R(SubsetsWith(forest, i - 1)), Selections(forest))
  /\ \A j \in 1..(Len(list) - 1) : RLe(list[j + 1].importance, list[j].importance)

ForestImportanceNormalised ==
  (rfOut.call = "getFeatureImportance" /\ rf.featureNames # <<>>) =>
     /\ SharesOfForest(rf, rfOut.value[1])
     /\ NonNegativeSummingToOne(
          Arr([j \in DOMAIN rfOut.value[1] |-> rfOut.value[1][j].importance]))

\* C21: the feature importances train returns for a tree with a decision node
\* are the features' shares of gain * samples over the decision nodes, and
\* those getFeatureImportance returns once fit has been called on the forest
\* are the features' shares of the selections, largest first; either way
\* they are non-negative and sum to 1.
C21_ImportancesSumToOne == TreeImportanceNormalised /\ ForestImportanceNormalised

\* fit has never been called on the forest: fit stores the feature names,
\* which are not empty, before anything else.
NeverFitted == rf.featureNames = <<>> /\ rf.trees = <<>> /\ rf.classes = <<>>

\* C22: predict and predictProba of a RandomForestClassifier on which fit has
\* never been called raise an error.
C22_UnfittedForestRaises ==
  (NeverFitted /\ rfOut.call \in {"predict", "predictProba"}) => rfOut.kind = "error"

\* The number of edges from a Gini tree node down to its deepest leaf.
RECURSIVE GiniDepth(_)
GiniDepth(node) ==
  IF node.isLeaf THEN 0
  ELSE 1 + (IF GiniDepth(node.left[1]) > GiniDepth(node.right[1])
            THEN GiniDepth(node.left[1]) ELSE GiniDepth(node.right[1]))

BuiltTree == grown.call = "buildTree" /\ grown.kind = "value"

\* C23: no leaf of a tree that buildTree of part_006 returns (called with
\* depth 0) lies more than maxDepth edges, or more than the number of
\* candidate features, below the root; no leaf of a Gini tree that
\* RandomForestClassifier.fit grows lies more than the forest's maxDepth
\* below its root.
C23_DepthIsBounded ==
  /\ BuiltTree =>
       /\ getTreeStats(grown.value[1]).maxDepth <= grown.arg.maxDepth
       /\ getTreeStats(grown.value[1]).maxDepth <= Len(grown.arg.features)
  /\ \A k \in DOMAIN rf.trees : GiniDepth(rf.trees[k].root) <= rf.maxDepth

\* A tree cut at maxDepth 1 with a feature left and a leaf of mixed labels.
C23_Witness ==
  /\ BuiltTree /\ grown.arg.maxDepth = 1 /\ Len(grown.arg.features) = 2
  /\ getTreeStats(grown.value[1]).maxDepth = 1
  /\ \E i \in DOMAIN grown.value[1].children :
        grown.value[1].children[i].node.confidence # R(1)

\* An ID3 tree in which a node is a leaf exactly when it has no children and
\* every other node has two or more children, under distinct keys.
RECURSIVE Branching(_)
Branching(tree) ==
  IF tree.type = "leaf" THEN "children" \notin DOMAIN tree
  ELSE /\ "children" \in DOMAIN tree
       /\ Len(tree.children) >= 2
       /\ \A i, j \in DOMAIN tree.children :
             tree.children[i].key = tree.children[j].key => i = j
       /\ \A i \in DOMAIN tree.children : Branching(tree.children[i].node)

\* A Gini tree grown on the rows X: a leaf has no child, a decision node has
\* a left and a right child, and its threshold sends one row or more of X
\* to either side.
RECURSIVE GiniBranching(_, _)
GiniBranching(node, X) ==
  IF node.isLeaf THEN node.left = Null /\ node.right = Null
  ELSE /\ node.left # Null /\ node.right # Null
       /\ LeftIndices(X, node.featureIndex[1], node.threshold[1]) # <<>>
       /\ RightIndices(X, node.featureIndex[1], node.threshold[1]) # <<>>
       /\ GiniBranching(node.left[1],
                        Pick(X, LeftIndices(X, node.featureIndex[1], node.threshold[1])))
       /\ GiniBranching(node.right[1],
                        Pick(X, RightIndices(X, node.featureIndex[1], node.threshold[1])))

\* The rows tree k (from 0) of the forest was grown on by the fit of X that
\* read the random source.
GrownOn(forest, X, source, k) ==
  Arr([i \in DOMAIN X |->
         Project(X[bootstrap(Len(X), source, k * DrawsPerTree(forest, X))[i]],
                 SubsetAt(forest, X, source, k))])

GroveGrown == rfOut.call = "fit" /\ rfOut.kind = "value" /\ subject = "grove"

\* C24: in a tree that buildTree of part_006 returns a node is a leaf exactly
\* when it has no children, and a decision node has two or more children
\* under distinct keys; in a Gini tree grown by RandomForestClassifier.fit a
\* leaf has no child and a decision node has a left and a right child, each
\* grown on one row or more of the node's rows.
C24_DecisionNodesBranch ==
  /\ BuiltTree => Branching(grown.value[1])
  /\ GroveGrown =>
       \A k \in DOMAIN rf.trees :
         GiniBranching(rf.trees[k].root,
                       GrownOn(rf, FeaturesOf(rfOut.arg.table), rfOut.arg.source, k - 1))

\* A tree of two decision nodes.
C24_Witness == BuiltTree /\ getTreeStats(grown.value[1]).nodes = 2

\* The greatest number of rows that carry one label.
MajorityCount(rows) ==
  CHOOSE n \in 0..Len(rows) :
    /\ \A i \in DOMAIN rows : CountOf(rows, rows[i].T) <= n
    /\ rows # <<>> => \E i \in DOMAIN rows : CountOf(rows, rows[i].T) = n

\* A leaf built from rows: its distribution counts the rows of each label,
\* and its confidence is the share of the majority.
LeafCounts(leaf, rows) ==
  /\ leaf.samples = Len(rows)
  /\ rows # <<>> =>
       /\ leaf.distribution # Null
       /\ \A i \in DOMAIN leaf.distribution[1] :
             /\ Counted(leaf.distribution[1][i])
             /\ leaf.distribution[1][i].count = CountOf(rows, leaf.distribution[1][i].key)
       /\ {leaf.distribution[1][i].key : i \in DOMAIN leaf.distribution[1]}
            = {rows[i].T : i \in DOMAIN rows}
       /\ leaf.confidence = Q(MajorityCount(rows), Len(rows))

\* A decision node built from rows, below decision nodes on the features
\* `used`: its feature is a new one, and its children are one per value of
\* the feature in rows, built from the rows of that value.
RECURSIVE Partitions(_, _, _)
Partitions(tree, rows, used) ==
  IF tree.type = "leaf" THEN LeafCounts(tree, rows)
  ELSE /\ tree.feature \notin used
       /\ tree.samples = Len(rows)
       /\ Len(tree.children) = Cardinality({rows[i][tree.feature] : i \in DOMAIN rows})
       /\ {tree.children[i].key : i \in DOMAIN tree.children}
            = {rows[i][tree.feature] : i \in DOMAIN rows}
       /\ RSum(Arr([i \in DOMAIN tree.children |-> R(tree.children[i].node.samples)]))
            = R(tree.samples)
       /\ \A i \in DOMAIN tree.children :
             Partitions(tree.children[i].node,
                        SelectSeq(rows, LAMBDA row : row[tree.feature] = tree.children[i].key),
                        used \cup {tree.feature})

\* C25: in a tree that buildTree of part_006 returns no feature labels two
\* decision nodes of one path, a decision node has one child per value of
\* its feature among its rows, the children's samples add up to the node's,
\* and a leaf's distribution counts its rows by label, adding up to its
\* samples, with confidence = majority count / samples.
C25_ChildrenPartitionRows ==
  BuiltTree => Partitions(grown.value[1], grown.arg.data, {})

\* C26: a train / fit call of a LinearRegressionModel, HoltForecaster,
\* DemandForecaster, TradeForecaster or PriceSensitivityModel that raises an
\* error leaves the observable state as it was: every predict / forecast /
\* getStats call answers after the failed call what it answered before it.
LRAnswers(m) ==
  [getStats |-> LRGetStats(m),
   predict |-> [features \in LRQueries |-> LRPredict(m, features)]]

HoltAnswers(h) ==
  [getStats |-> HoltGetStats(h),
   forecast |-> [steps \in HoltSteps |-> HoltForecast(h, steps)],
   getConfidenceIntervals |->
     [steps \in HoltSteps |-> HoltConfidenceIntervals(h, steps, Q(95, 100))]]

DFAnswers(m) ==
  [getStats |-> DFGetStats(m),
   predictTotal |-> [features \in DFQueries |-> DFPredictTotal(m, features)],
   predictAllItems |-> [features \in DFQueries |-> DFPredictAllItems(m, features)],
   predictItem |-> [query \in DFQueries \X DFItems |-> DFPredictItem(m, query[1], query[2])]]

TFAnswers(m) ==
  [getStats |-> [type \in TFTypes |-> TFGetStats(m, type)],
   getTopCountries |-> [type \in TFTypes |-> TFGetTopCountries(m, type)],
   forecast |-> [query \in TFTypes \X HoltSteps |-> TFForecast(m, query[1], query[2])]]

PSMAnswers(m) ==
  [getStats |-> PSMGetStats(m),
   predict |-> [customerData \in Customers |-> PSMPredict(m, customerData)]]

FailedCall(out, method) == out.call = method /\ out.kind = "error"

C26_FailedTrainChangesNothing ==
  [][/\ FailedCall(lrOut', "train") => LRAnswers(lrm') = LRAnswers(lrm)
     /\ FailedCall(holtOut', "fit") => HoltAnswers(holt') = HoltAnswers(holt)
     /\ FailedCall(dfOut', "train") => DFAnswers(dfm') = DFAnswers(dfm)
     /\ FailedCall(tfOut', "train") => TFAnswers(tfm') = TFAnswers(tfm)
     /\ FailedCall(psmOut', "train") => PSMAnswers(psm') = PSMAnswers(psm)]_vars

\* C27: after any sequence of addChart, duplicateChart, updateChart,
\* removeChart, removeDataSet and reset, several addChart calls of one
\* millisecond included, the charts of the store have pairwise distinct ids.
C27_ChartIdsAreDistinct ==
  \A i, j \in DOMAIN store.charts : i # j => store.charts[i].id # store.charts[j].id

\* C28: after any sequence of addDataSet, removeDataSet, setActiveDataSet of
\* a loaded dataset and reset, activeDataSetId is null exactly when dataSets
\* is empty and else the id of a loaded dataset, getActiveDataSet returns
\* null only when no dataset is loaded, and no chart has the dataSetId of a
\* dataset that was removed.
ActiveIsLoaded(state) ==
  /\ state.activeDataSetId = Null <=> state.dataSets = <<>>
  /\ state.activeDataSetId # Null => state.activeDataSetId \in DataSetIds(state)
  /\ getActiveDataSet(state) = Null <=> state.dataSets = <<>>

ChartsOfLoaded(state) ==
  \A i \in DOMAIN state.charts :
     state.charts[i].dataSetId = Null \/ state.charts[i].dataSetId \in DataSetIds(state)

C28_ActiveDataSetIsLoaded == ActiveIsLoaded(store) /\ ChartsOfLoaded(store)

\* A dataset was removed while another stayed loaded and a chart was left.
C28_Witness ==
  /\ storeOut.call = "removeDataSet"
  /\ storeOut.arg[1] \notin DataSetIds(store)
  /\ store.dataSets # <<>>
  /\ store.charts # <<>>

\* C29: for every interleaving of the processFile runs of the files dropped
\* at once, isProcessing is true whenever a run has started and not finished
\* and false once the last has finished, and every finished run has made
\* exactly one call of addDataSet or setError.
Unfinished == \E i \in DOMAIN uploads : uploads[i].pc = "awaiting"

OneOutcome(run) == run.pc = "finished" => run.added + run.errors = 1

C29_ProcessingWhileAnyRuns ==
  /\ upload.isProcessing <=> Unfinished
  /\ \A i \in DOMAIN uploads : OneOutcome(uploads[i])

\* C30: the left join of MergePanel yields for every row of the first
\* dataset one output row per row of the second with an equal key, or one
\* row with null second-dataset columns where there is none, and each output
\* row holds under the prefixed name the value of every non-join column of
\* the row of the first dataset it comes from, whatever the names of the
\* datasets and columns; the inner join yields one row per pair of rows with
\* equal keys.
First(state, call) == FindById(state.dataSets, call.arg.dataset1)[1]

Second(state, call) == FindById(state.dataSets, call.arg.dataset2)[1]

\* The rows of ds2 whose key equals that of row i of ds1.
Partners(ds1, ds2, joinColumn, i) ==
  { j \in DOMAIN ds2.data : ds2.data[j][joinColumn] = ds1.data[i][joinColumn] }

\* The row of ds1 each output row comes from, in the order of the output.
RECURSIVE Origins(_,_,_,_,_)
Origins(ds1, ds2, joinColumn, mergeType, i) ==
  IF i > Len(ds1.data) THEN <<>>
  ELSE [k \in 1..(IF Partners(ds1, ds2, joinColumn, i) = {} /\ mergeType = "left" THEN 1
                  ELSE Cardinality(Partners(ds1, ds2, joinColumn, i))) |-> i]
       \o Origins(ds1, ds2, joinColumn, mergeType, i + 1)

OthersOf(ds, joinColumn) == { ds.columns[i] : i \in DOMAIN ds.columns } \ {joinColumn}

KeepsFirst(ds1, joinColumn, outRow, row1) ==
  \A col \in OthersOf(ds1, joinColumn) :
     /\ Prefixed(ds1.name, col) \in DOMAIN outRow
     /\ outRow[Prefixed(ds1.name, col)] = row1[col]

NullSecond(ds2, joinColumn, outRow) ==
  \A col \in OthersOf(ds2, joinColumn) : outRow[Prefixed(ds2.name, col)] = NullCell

JoinedAsClaimed(ds1, ds2, joinColumn, mergeType, data, origins) ==
  /\ Len(data) = Len(origins)
  /\ mergeType = "left" =>
       \A k \in DOMAIN data :
          /\ KeepsFirst(ds1, joinColumn, data[k], ds1.data[origins[k]])
          /\ Partners(ds1, ds2, joinColumn, origins[k]) = {} =>
                NullSecond(ds2, joinColumn, data[k])

JoinCalled ==
  merged.call = "handleMerge" /\ merged.kind = "value" /\ merged.arg.mergeType # "union"

C30_JoinKeepsFirstDataset ==
  JoinCalled =>
     JoinedAsClaimed(First(store, merged), Second(store, merged), merged.arg.joinColumn,
            merged.arg.mergeType, merged.value[1][1].data,
            Origins(First(store, merged), Second(store, merged), merged.arg.joinColumn,
                    merged.arg.mergeType, 1))

====
